---- MODULE Spec2Model ----
(***************************************************************************)
(* Agent execution loop, tool executor, tool registry and operation        *)
(* extractor of the BigRipple / wavemaker agent framework.                 *)
(*                                                                         *)
(* Python values are modelled as follows.                                  *)
(*   Optional[T]   a sequence of length 0 (None) or 1 (the value), or the  *)
(*                 JSON value JNull where T is a JSON value                *)
(*   dict          an insertion-ordered sequence of [k, v] pairs with      *)
(*                 unique keys (Python 3.7+ dict semantics)                *)
(*   JSON value    a record [kind, s, l, d]: the Python type name, the     *)
(*                 string payload (str, int, bool), the items (list) and   *)
(*                 the entries (dict)                                      *)
(*   exception     a record [cls, msg]                                     *)
(***************************************************************************)
EXTENDS Integers, Sequences, FiniteSets, TLC

VARIABLES
    registry,        \* ToolRegistry instance: [_tools, _handlers, _name_to_id]
    pc,              \* per run: position of the execute() coroutine
    input,           \* per run: AgentExecutionInput
    iteration,       \* per run: number of loop iterations entered (LLM calls made)
    messages,        \* per run: the running message history
    total_tokens,    \* per run: running token totals
    all_tool_calls,  \* per run: recorded tool calls
    turn,            \* per run: assistant_msg.tool_calls of the current iteration
    tcIndex,         \* per run: index of the next tool call of the turn
    output,          \* per run: Optional[AgentExecutionOutput] returned by execute()
    escaped,         \* per run: Optional[exception] that left execute() uncaught
    trace,           \* per run (history): LLM responses and executor outcomes observed
    call,            \* direct call of the executor or the extractor: its arguments
    callOut          \* direct call: Optional[outcome of the call]

vars == <<registry, pc, input, iteration, messages, total_tokens, all_tool_calls,
          turn, tcIndex, output, escaped, trace, call, callOut>>

runVars == <<pc, input, iteration, messages, total_tokens, all_tool_calls,
             turn, tcIndex, output, escaped, trace>>

-----------------------------------------------------------------------------
(* Bounds of the model.                                                    *)

MaxIterations == 2      \* largest max_iterations a run is started with

-----------------------------------------------------------------------------
(* Python values.                                                          *)

None == <<>>
Some(x) == <<x>>
IsNone(o) == Len(o) = 0
Val(o) == o[1]

Range(s) == {s[i] : i \in 1..Len(s)}

\* Python dict as an insertion-ordered sequence of pairs.
DictKeys(d) == {d[i].k : i \in 1..Len(d)}
DictHas(d, key) == \E i \in 1..Len(d) : d[i].k = key
DictGet(d, key) ==
    IF DictHas(d, key)
    THEN Some(d[CHOOSE i \in 1..Len(d) : d[i].k = key].v)
    ELSE None
DictSet(d, key, value) ==
    IF DictHas(d, key)
    THEN [i \in 1..Len(d) |-> IF d[i].k = key THEN [k |-> key, v |-> value] ELSE d[i]]
    ELSE Append(d, [k |-> key, v |-> value])
DictDel(d, key) == SelectSeq(d, LAMBDA e : e.k # key)

\* {**a, **b}: keys of a keep their position, values of b win, new keys follow.
RECURSIVE DictMerge(_, _)
DictMerge(a, b) ==
    IF Len(b) = 0 THEN a
    ELSE DictMerge(DictSet(a, Head(b).k, Head(b).v), Tail(b))

\* JSON / Python values: every value has the same four fields.
JStr(s) == [kind |-> "str", s |-> s, l |-> <<>>, d |-> <<>>]
JNull == [kind |-> "NoneType", s |-> "", l |-> <<>>, d |-> <<>>]
JInt(s) == [kind |-> "int", s |-> s, l |-> <<>>, d |-> <<>>]
JBool(b) == [kind |-> "bool", s |-> IF b THEN "True" ELSE "False", l |-> <<>>, d |-> <<>>]
JList(l) == [kind |-> "list", s |-> "", l |-> l, d |-> <<>>]
JDict(d) == [kind |-> "dict", s |-> "", l |-> <<>>, d |-> d]
KV(key, value) == [k |-> key, v |-> value]

\* Python truth value.
Truthy(v) ==
    CASE v.kind = "str" -> v.s # ""
      [] v.kind = "NoneType" -> FALSE
      [] v.kind = "int" -> v.s # "0"
      [] v.kind = "bool" -> v.s = "True"
      [] v.kind = "list" -> Len(v.l) > 0
      [] v.kind = "dict" -> Len(v.d) > 0
      [] OTHER -> TRUE

\* a or b
Or(a, b) == IF Truthy(a) THEN a ELSE b

\* x.get(key) and x.get(key, default) of a dict x
JGetD(x, key, default) == IF DictHas(x.d, key) THEN Val(DictGet(x.d, key)) ELSE default
JGet(x, key) == JGetD(x, key, JNull)

Exc(cls, msg) == [cls |-> cls, msg |-> msg]

-----------------------------------------------------------------------------
(* json.loads on the strings the model uses.                               *)

TextBad    == "{\"brand_id\": "
TextEmpty  == "{}"
TextBrand  == "{\"brand_id\": \"b1\"}"
TextFull   == "{\"brand_id\": \"b1\", \"name\": \"Q2 Push\", \"channels\": [\"linkedin\"]}"
TextFax    == "{\"brand_id\": \"b1\", \"name\": \"Q2 Push\", \"channels\": [\"fax\"]}"
TextQuery  == "{\"query\": \"tone\", \"execution_id\": \"spoofed\"}"
TextList   == "[\"query\"]"
TextInt    == "5"
TextNull   == "null"
TextString == "\"my query\""
TextNullName == "{\"brand_id\": \"b1\", \"name\": null, \"channels\": []}"

\* assistant contents
ContentDone        == "Done."
ContentExplicit    == "{\"summary\": \"ok\", \"entityOperations\": [{\"type\": \"update_campaign\", \"campaignId\": \"c1\", \"data\": {\"status\": \"ACTIVE\"}}]}"
ContentCampaigns   == "{\"brandId\": \"b9\", \"campaigns\": [{\"name\": \"Spring\", \"create\": true}]}"
ContentNullChannel == "{\"posts\": [{\"brandId\": \"b1\", \"body\": \"X\", \"channel\": null, \"create\": true}]}"
ContentBadOps      == "{\"entityOperations\": [\"create_campaign\"]}"
ContentBroken      == "{not json"
ContentPosts       == "  {\"posts\": [{\"channel\": \"blog\", \"body\": \"X\"}]}"

ArgumentTexts ==
    <<TextBad, TextEmpty, TextBrand, TextFull, TextFax, TextQuery, TextList,
      TextInt, TextNull, TextString, TextNullName>>

Loaded(value) == [ok |-> TRUE, value |-> value, err |-> ""]
DecodeError(msg) == [ok |-> FALSE, value |-> JNull, err |-> msg]

json_loads(text) ==
    CASE text = TextBad -> DecodeError("Expecting value: line 1 column 14 (char 13)")
      [] text = TextEmpty -> Loaded(JDict(<<>>))
      [] text = TextBrand -> Loaded(JDict(<<KV("brand_id", JStr("b1"))>>))
      [] text = TextFull ->
            Loaded(JDict(<<KV("brand_id", JStr("b1")), KV("name", JStr("Q2 Push")),
                           KV("channels", JList(<<JStr("linkedin")>>))>>))
      [] text = TextFax ->
            Loaded(JDict(<<KV("brand_id", JStr("b1")), KV("name", JStr("Q2 Push")),
                           KV("channels", JList(<<JStr("fax")>>))>>))
      [] text = TextQuery ->
            Loaded(JDict(<<KV("query", JStr("tone")), KV("execution_id", JStr("spoofed"))>>))
      [] text = TextList -> Loaded(JList(<<JStr("query")>>))
      [] text = TextInt -> Loaded(JInt("5"))
      [] text = TextNull -> Loaded(JNull)
      [] text = TextString -> Loaded(JStr("my query"))
      [] text = TextNullName ->
            Loaded(JDict(<<KV("brand_id", JStr("b1")), KV("name", JNull),
                           KV("channels", JList(<<>>))>>))
      [] text = ContentDone -> DecodeError("Expecting value: line 1 column 1 (char 0)")
      [] text = ContentExplicit ->
            Loaded(JDict(<<KV("summary", JStr("ok")),
                           KV("entityOperations",
                              JList(<<JDict(<<KV("type", JStr("update_campaign")),
                                              KV("campaignId", JStr("c1")),
                                              KV("data", JDict(<<KV("status", JStr("ACTIVE"))>>))>>)>>))>>))
      [] text = ContentCampaigns ->
            Loaded(JDict(<<KV("brandId", JStr("b9")),
                           KV("campaigns",
                              JList(<<JDict(<<KV("name", JStr("Spring")),
                                              KV("create", JBool(TRUE))>>)>>))>>))
      [] text = ContentNullChannel ->
            Loaded(JDict(<<KV("posts",
                              JList(<<JDict(<<KV("brandId", JStr("b1")),
                                              KV("body", JStr("X")),
                                              KV("channel", JNull),
                                              KV("create", JBool(TRUE))>>)>>))>>))
      [] text = ContentBadOps ->
            Loaded(JDict(<<KV("entityOperations", JList(<<JStr("create_campaign")>>))>>))
      [] text = ContentBroken ->
            DecodeError("Expecting property name enclosed in double quotes: line 1 column 2 (char 1)")
      [] text = ContentPosts ->
            Loaded(JDict(<<KV("posts",
                              JList(<<JDict(<<KV("channel", JStr("blog")),
                                              KV("body", JStr("X"))>>)>>))>>))

\* text.strip().startswith("{") on the strings the model uses
StripStartsWithBrace(text) ==
    text \in {TextBad, TextEmpty, TextBrand, TextFull, TextFax, TextQuery,
              ContentExplicit, ContentCampaigns, ContentNullChannel, ContentBadOps,
              ContentBroken, ContentPosts}

\* a in b for two strings (substring test) on the strings the model uses
IsSubstring(a, b) == a = b \/ (a = "query" /\ b = "my query")

\* The Python expression `name in value`: [raised, holds].
PyIn(name, value) ==
    CASE value.kind = "dict" -> [raised |-> FALSE, holds |-> DictHas(value.d, name)]
      [] value.kind = "list" ->
            [raised |-> FALSE, holds |-> \E i \in 1..Len(value.l) : value.l[i] = JStr(name)]
      [] value.kind = "str" -> [raised |-> FALSE, holds |-> IsSubstring(name, value.s)]
      [] OTHER -> [raised |-> TRUE, holds |-> FALSE]

RECURSIVE Join(_, _)
Join(sep, names) ==
    IF Len(names) = 0 THEN ""
    ELSE IF Len(names) = 1 THEN names[1]
    ELSE names[1] \o sep \o Join(sep, Tail(names))

-----------------------------------------------------------------------------
(* ToolDefinition, ToolResult.                                             *)

Param(name, required) == [name |-> name, required |-> required]

ToolDefinition(id, name, parameters, returns_entity_operation) ==
    [id |-> id, name |-> name, parameters |-> parameters,
     returns_entity_operation |-> returns_entity_operation]

get_required_params(definition) ==
    LET req == SelectSeq(definition.parameters, LAMBDA p : p.required)
    IN  [i \in 1..Len(req) |-> req[i].name]

\* A value returned by a handler or by the executor. type is the Python type
\* of the value; the other fields are the attributes of a ToolResult, the
\* entries of a plain dict, or the value a coroutine resolves to.
ToolResultOk(data, entity_operation) ==
    [type |-> "ToolResult", success |-> TRUE, data |-> data, error |-> JNull,
     entity_operation |-> entity_operation]

ToolResultFail(code, message, details) ==
    [type |-> "ToolResult", success |-> FALSE, data |-> JNull,
     error |-> JDict(<<KV("code", JStr(code)), KV("message", JStr(message)),
                       KV("details", details)>>),
     entity_operation |-> JNull]

\* result.model_dump(by_alias=True)
ModelDump(result) ==
    JDict(<<KV("success", JBool(result.success)), KV("data", result.data),
            KV("error", result.error), KV("entityOperation", result.entity_operation)>>)

ErrorCode(result) ==
    IF result.type = "ToolResult" /\ result.error.kind = "dict"
    THEN JGet(result.error, "code").s ELSE ""

-----------------------------------------------------------------------------
(* ToolRegistry.                                                           *)

HandlerNone == "None"       \* Python None passed as the handler

EmptyRegistry == [_tools |-> <<>>, _handlers |-> <<>>, _name_to_id |-> <<>>]

\* A faulty register that stores the definition before it checks the name.
RegisterStoresBeforeNameCheck(reg, definition, handler) ==
    IF DictHas(reg._tools, definition.id)
    THEN [raised |-> TRUE,
          exc |-> Exc("ValueError", "Tool '" \o definition.id \o "' already registered"),
          registry |-> reg]
    ELSE IF DictHas(reg._name_to_id, definition.name)
    THEN [raised |-> TRUE,
          exc |-> Exc("ValueError",
                      "Function name '" \o definition.name \o "' already registered"),
          registry |-> [reg EXCEPT !._tools = DictSet(reg._tools, definition.id, definition)]]
    ELSE [raised |-> FALSE, exc |-> Exc("", ""),
          registry |-> [_tools |-> DictSet(reg._tools, definition.id, definition),
                        _handlers |-> DictSet(reg._handlers, definition.id, handler),
                        _name_to_id |-> DictSet(reg._name_to_id, definition.name,
                                                definition.id)]]

\* [raised, exc, registry]
register(reg, definition, handler) ==
    IF DictHas(reg._tools, definition.id)
    THEN [raised |-> TRUE,
          exc |-> Exc("ValueError", "Tool '" \o definition.id \o "' already registered"),
          registry |-> reg]
    ELSE IF DictHas(reg._name_to_id, definition.name)
    THEN [raised |-> TRUE,
          exc |-> Exc("ValueError",
                      "Function name '" \o definition.name \o "' already registered"),
          registry |-> reg]
    ELSE [raised |-> FALSE, exc |-> Exc("", ""),
          registry |-> [_tools |-> DictSet(reg._tools, definition.id, definition),
                        _handlers |-> DictSet(reg._handlers, definition.id, handler),
                        _name_to_id |-> DictSet(reg._name_to_id, definition.name,
                                                definition.id)]]

\* A faulty unregister that leaves the name mapping behind.
UnregisterKeepsName(reg, tool_id) ==
    IF ~DictHas(reg._tools, tool_id)
    THEN [ret |-> FALSE, registry |-> reg]
    ELSE [ret |-> TRUE,
          registry |-> [_tools |-> DictDel(reg._tools, tool_id),
                        _handlers |-> DictDel(reg._handlers, tool_id),
                        _name_to_id |-> reg._name_to_id]]

\* [ret, registry]
unregister(reg, tool_id) ==
    IF ~DictHas(reg._tools, tool_id)
    THEN [ret |-> FALSE, registry |-> reg]
    ELSE [ret |-> TRUE,
          registry |-> [_tools |-> DictDel(reg._tools, tool_id),
                        _handlers |-> DictDel(reg._handlers, tool_id),
                        _name_to_id |-> DictDel(reg._name_to_id,
                                                Val(DictGet(reg._tools, tool_id)).name)]]

\* Optional[ToolDefinition]
get(reg, tool_id) == DictGet(reg._tools, tool_id)

\* Optional[handler]
get_handler(reg, tool_id) == DictGet(reg._handlers, tool_id)

\* `if tool_id:` is the truth value of the id string
IdIsTruthy(tool_id) == tool_id # ""

\* Optional[ToolDefinition]
get_by_name(reg, name) ==
    LET tool_id == DictGet(reg._name_to_id, name)
    IN  IF ~IsNone(tool_id) /\ IdIsTruthy(Val(tool_id))
        THEN DictGet(reg._tools, Val(tool_id))
        ELSE None

\* Optional[handler]
get_handler_by_name(reg, name) ==
    LET tool_id == DictGet(reg._name_to_id, name)
    IN  IF ~IsNone(tool_id) /\ IdIsTruthy(Val(tool_id))
        THEN DictGet(reg._handlers, Val(tool_id))
        ELSE None

\* list(self._tools.keys())
list_ids(reg) == [i \in 1..Len(reg._tools) |-> reg._tools[i].k]

\* ToolParameter.to_json_schema(): type and description are not part of the
\* model's parameters; the schema is told apart by the parameter it is of.
to_json_schema(param) == [schema_of |-> param.name]

\* properties[param.name] = param.to_json_schema() for each parameter
RECURSIVE Properties(_)
Properties(parameters) ==
    IF Len(parameters) = 0 THEN <<>>
    ELSE DictSet(Properties(SubSeq(parameters, 1, Len(parameters) - 1)),
                 parameters[Len(parameters)].name,
                 to_json_schema(parameters[Len(parameters)]))

to_openai_function(definition) ==
    [type |-> "function",
     function |-> [name |-> definition.name,
                   parameters |-> [type |-> "object",
                                   properties |-> Properties(definition.parameters),
                                   required |-> get_required_params(definition)]]]

\* the loop of to_openai_tools over tool_ids
RECURSIVE ConvertEach(_, _)
ConvertEach(reg, tool_ids) ==
    IF Len(tool_ids) = 0 THEN <<>>
    ELSE (IF DictHas(reg._tools, Head(tool_ids))
          THEN <<to_openai_function(Val(DictGet(reg._tools, Head(tool_ids))))>>
          ELSE <<>>)
         \o ConvertEach(reg, Tail(tool_ids))

\* A faulty export that moves the first tool it lists to the end of _tools.
ToOpenaiToolsRotating(reg, tool_ids) ==
    [ret |-> ConvertEach(reg, IF IsNone(tool_ids) THEN list_ids(reg) ELSE Val(tool_ids)),
     registry |-> IF Len(reg._tools) = 0 THEN reg
                  ELSE [reg EXCEPT !._tools = Append(Tail(reg._tools), Head(reg._tools))]]

\* A faulty export that lists the tools in the order of their ids.
RECURSIVE SortedIds(_)
SortedIds(ids) ==
    IF ids = {} THEN <<>>
    ELSE LET least == CHOOSE a \in ids : \A b \in ids : Len(a) <= Len(b)
         IN  <<least>> \o SortedIds(ids \ {least})

ToOpenaiToolsSorted(reg, tool_ids) ==
    [ret |-> ConvertEach(reg, SortedIds(IF IsNone(tool_ids) THEN DictKeys(reg._tools)
                                        ELSE Range(Val(tool_ids)))),
     registry |-> reg]

\* tool_ids is Optional[List[str]]; [ret, registry]: the list returned and the
\* registry after the call, which the method does not write
to_openai_tools(reg, tool_ids) ==
    [ret |-> ConvertEach(reg, IF IsNone(tool_ids) THEN list_ids(reg) ELSE Val(tool_ids)),
     registry |-> reg]

-----------------------------------------------------------------------------
(* Tools and handlers a registry is built from.                            *)

CHANNELS == <<"facebook", "instagram", "linkedin", "twitter", "blog", "email">>

CreateCampaignDef ==
    ToolDefinition("bigripple.campaign.create", "create_campaign",
        <<Param("brand_id", TRUE), Param("name", TRUE), Param("channels", TRUE),
          Param("description", FALSE), Param("goal", FALSE),
          Param("target_audience", FALSE), Param("start_date", FALSE),
          Param("end_date", FALSE)>>, TRUE)

SearchKnowledgeDef ==
    ToolDefinition("bigripple.knowledge.search", "search_knowledge_base",
        <<Param("query", TRUE), Param("max_results", FALSE),
          Param("filter_type", FALSE)>>, FALSE)

GreetDef ==
    ToolDefinition("test.greet", "greet_user",
        <<Param("name", TRUE), Param("formal", FALSE)>>, FALSE)

\* custom tools an application may register
EmptyIdDef == ToolDefinition("", "ping", <<Param("query", TRUE)>>, FALSE)
NoHandlerDef == ToolDefinition("custom.pending", "pending_tool", <<>>, FALSE)
DictDef == ToolDefinition("custom.raw", "raw_tool", <<>>, FALSE)
AsyncDef == ToolDefinition("custom.fetch", "fetch_tool", <<Param("query", TRUE)>>, FALSE)
RaisingDef == ToolDefinition("custom.flaky", "flaky_tool", <<>>, FALSE)
AsyncRaisingDef == ToolDefinition("custom.stream", "stream_tool", <<>>, FALSE)
\* a tool whose required parameter has the name of a context key
AuditDef == ToolDefinition("custom.audit", "audit_tool", <<Param("execution_id", TRUE)>>, FALSE)

Registrations ==
    <<[definition |-> CreateCampaignDef, handler |-> "_handle_create_campaign"],
      [definition |-> SearchKnowledgeDef, handler |-> "_handle_search_knowledge"],
      [definition |-> GreetDef, handler |-> "lambda"],
      [definition |-> EmptyIdDef, handler |-> "_handle_search_knowledge"],
      [definition |-> NoHandlerDef, handler |-> HandlerNone],
      [definition |-> DictDef, handler |-> "dict_handler"],
      [definition |-> AsyncDef, handler |-> "async_handler"],
      [definition |-> RaisingDef, handler |-> "raising_handler"],
      [definition |-> AsyncRaisingDef, handler |-> "async_raising_handler"],
      [definition |-> AuditDef, handler |-> "kwargs_handler"]>>

RECURSIVE RegisterAll(_, _)
RegisterAll(reg, regs) ==
    IF Len(regs) = 0 THEN reg
    ELSE RegisterAll(register(reg, Head(regs).definition, Head(regs).handler).registry,
                     Tail(regs))

DefaultRegistry == RegisterAll(EmptyRegistry, Registrations)

Returned(ret) == [raised |-> FALSE, exc |-> Exc("", ""), ret |-> ret]
Raised(cls, msg) == [raised |-> TRUE, exc |-> Exc(cls, msg), ret |-> ToolResultOk(JNull, JNull)]

\* for c in channels: the items the loop sees, or a TypeError
IterateChannels(channels) ==
    CASE channels.kind = "list" -> [raised |-> FALSE, items |-> channels.l]
      [] channels.kind = "dict" ->
            [raised |-> FALSE, items |-> [i \in 1..Len(channels.d) |-> JStr(channels.d[i].k)]]
      [] channels.kind = "str" ->
            \* the characters of the string: none of them is a channel name
            [raised |-> FALSE,
             items |-> IF channels.s = "" THEN <<>> ELSE <<JStr("<char>")>>]
      [] OTHER -> [raised |-> TRUE, items |-> <<>>]

IsChannel(c) == c.kind = "str" /\ \E i \in 1..Len(CHANNELS) : CHANNELS[i] = c.s

\* entity_operation["data"][key] = value when value is truthy
SetIfTruthy(d, key, value) == IF Truthy(value) THEN DictSet(d, key, value) ELSE d

handle_create_campaign(kwargs) ==
    LET a == JDict(kwargs)
        channels == IterateChannels(JGet(a, "channels"))
        data0 == <<KV("name", JGet(a, "name")), KV("channels", JGet(a, "channels")),
                   KV("status", JStr("DRAFT"))>>
        data1 == SetIfTruthy(data0, "description", JGet(a, "description"))
        data2 == SetIfTruthy(data1, "goal", JGet(a, "goal"))
        data3 == SetIfTruthy(data2, "targetAudience", JGet(a, "target_audience"))
        data4 == SetIfTruthy(data3, "startDate", JGet(a, "start_date"))
        data5 == SetIfTruthy(data4, "endDate", JGet(a, "end_date"))
        entity_operation ==
            JDict(<<KV("type", JStr("create_campaign")),
                    KV("brandId", JGet(a, "brand_id")),
                    KV("data", JDict(data5)),
                    KV("metadata",
                       JDict(<<KV("aiGenerated", JBool(TRUE)),
                               KV("sourceExecutionId",
                                  Or(JGet(a, "execution_id"), JStr("unknown")))>>))>>)
    IN  IF ~({"brand_id", "name", "channels"} \subseteq DictKeys(kwargs))
        THEN Raised("TypeError", "missing required positional arguments")
        ELSE IF channels.raised
        THEN Raised("TypeError", "object is not iterable")
        ELSE IF \E i \in 1..Len(channels.items) : ~IsChannel(channels.items[i])
        THEN Returned(ToolResultFail("INVALID_CHANNELS", "Invalid channels", JNull))
        ELSE Returned(ToolResultOk(
                 JDict(<<KV("message", JStr("Campaign will be created")),
                         KV("operation_type", JStr("create_campaign")),
                         KV("brand_id", JGet(a, "brand_id"))>>),
                 entity_operation))

handle_search_knowledge(kwargs) ==
    LET a == JDict(kwargs)
    IN  IF ~DictHas(kwargs, "query")
        THEN Raised("TypeError", "missing required positional argument: 'query'")
        ELSE Returned(ToolResultOk(
                 JDict(<<KV("message", JStr("Knowledge search requested")),
                         KV("query", JGet(a, "query")),
                         KV("max_results", JGetD(a, "max_results", JInt("5"))),
                         KV("filter_type", JGet(a, "filter_type"))>>),
                 JNull))

\* A coroutine object whose await raises exc.
FailingCoroutine(exc) ==
    [type |-> "failing coroutine", success |-> FALSE, data |-> JNull,
     error |-> JDict(<<KV("cls", JStr(exc.cls)), KV("msg", JStr(exc.msg))>>),
     entity_operation |-> JNull]
AwaitRaises(ret) == ret.type = "failing coroutine"
AwaitError(ret) == Exc(JGet(ret.error, "cls").s, JGet(ret.error, "msg").s)

\* handler(**args): [raised, exc, ret]
CallHandler(handler, kwargs) ==
    CASE handler = "_handle_create_campaign" -> handle_create_campaign(kwargs)
      [] handler = "_handle_search_knowledge" -> handle_search_knowledge(kwargs)
      [] handler = "lambda" ->
            \* lambda: ToolResult.ok() takes no keyword argument
            IF Len(kwargs) = 0 THEN Returned(ToolResultOk(JNull, JNull))
            ELSE Raised("TypeError", "<lambda>() got an unexpected keyword argument")
      [] handler = "dict_handler" ->
            Returned([ToolResultOk(JStr("raw"), JNull) EXCEPT !.type = "dict"])
      [] handler = "async_handler" ->
            Returned([ToolResultOk(JStr("fetched"), JNull) EXCEPT !.type = "coroutine"])
      [] handler = "raising_handler" -> Raised("RuntimeError", "upstream unavailable")
      [] handler = "kwargs_handler" ->
            \* lambda **kwargs: ToolResult.ok(data=kwargs)
            Returned(ToolResultOk(JDict(kwargs), JNull))
      [] handler = "async_raising_handler" ->
            \* async def: the call returns a coroutine, the await raises
            Returned(FailingCoroutine(Exc("ConnectionError", "connection reset")))

-----------------------------------------------------------------------------
(* ToolExecutor.                                                           *)

\* Outcome of an executor call: the value returned or the exception raised,
\* and (history) the keyword arguments of every handler invocation made.
ExecReturn(ret) == [raised |-> FALSE, exc |-> Exc("", ""), ret |-> ret, invoked |-> <<>>]
ExecRaise(cls, msg) ==
    [raised |-> TRUE, exc |-> Exc(cls, msg), ret |-> ToolResultOk(JNull, JNull),
     invoked |-> <<>>]

\* if isinstance(arguments, str): args = json.loads(arguments) else: args = arguments
ParseArguments(arguments) ==
    IF arguments.kind = "str" THEN json_loads(arguments.s) ELSE Loaded(arguments)

\* the names the validation loop appends to `missing`, in parameter order
MissingParams(definition, args) ==
    SelectSeq(get_required_params(definition), LAMBDA n : ~PyIn(n, args).holds)

\* the validation loop evaluates `param_name not in args` once per required name
ValidationRaises(definition, args) ==
    \E i \in 1..Len(get_required_params(definition)) :
        PyIn(get_required_params(definition)[i], args).raised

MissingDetails(missing) ==
    JDict(<<KV("missing", JList([i \in 1..Len(missing) |-> JStr(missing[i])]))>>)

\* A faulty merge in which the parsed arguments win over the context.
MergeArgumentsWin(args, context) == DictMerge(context, args)

\* args = {**args, **context}
MergeContext(args, context) == DictMerge(args, context)

\* The try block of execute(): handler(**args), await, result.success.
InvokeAsync(handler, args) ==
    IF args.kind # "dict"
    THEN ExecReturn(ToolResultFail("EXECUTION_ERROR",
                                   "argument after ** must be a mapping", JNull))
    ELSE LET r == CallHandler(handler, args.d)
             awaited == IF r.ret.type = "coroutine"
                        THEN [r.ret EXCEPT !.type = "ToolResult"] ELSE r.ret
         IN  [IF r.raised
              THEN ExecReturn(ToolResultFail("EXECUTION_ERROR", r.exc.msg, JNull))
              ELSE IF AwaitRaises(r.ret)
              THEN ExecReturn(ToolResultFail("EXECUTION_ERROR", AwaitError(r.ret).msg,
                                             JNull))
              ELSE IF awaited.type # "ToolResult"
              THEN ExecReturn(ToolResultFail("EXECUTION_ERROR",
                                             "object has no attribute 'success'", JNull))
              ELSE ExecReturn(awaited)
              EXCEPT !.invoked = <<args.d>>]

\* A faulty execute_sync() whose try block reports the exception's class name
\* instead of its string representation.
InvokeSyncReportsClass(handler, args) ==
    IF args.kind # "dict"
    THEN ExecReturn(ToolResultFail("EXECUTION_ERROR",
                                   "argument after ** must be a mapping", JNull))
    ELSE [IF CallHandler(handler, args.d).raised
          THEN ExecReturn(ToolResultFail("EXECUTION_ERROR",
                                         CallHandler(handler, args.d).exc.cls, JNull))
          ELSE ExecReturn(CallHandler(handler, args.d).ret)
          EXCEPT !.invoked = <<args.d>>]

\* The try block of execute_sync(): handler(**args), returned as it is.
InvokeSync(handler, args) ==
    IF args.kind # "dict"
    THEN ExecReturn(ToolResultFail("EXECUTION_ERROR",
                                   "argument after ** must be a mapping", JNull))
    ELSE LET r == CallHandler(handler, args.d)
         IN  [IF r.raised
              THEN ExecReturn(ToolResultFail("EXECUTION_ERROR", r.exc.msg, JNull))
              ELSE ExecReturn(r.ret)
              EXCEPT !.invoked = <<args.d>>]

\* Everything before the try block, the same in execute() and execute_sync():
\* [done, out, handler, args]; done means the call ended with out.
Prepare(reg, tool_name, arguments, context) ==
    LET parsed == ParseArguments(arguments)
        args == parsed.value
        definition == get_by_name(reg, tool_name)
        handler == get_handler_by_name(reg, tool_name)
        missing == MissingParams(Val(definition), args)
        End(out) == [done |-> TRUE, out |-> out, handler |-> HandlerNone, args |-> JNull]
    IN  IF ~parsed.ok
        THEN End(ExecReturn(ToolResultFail("INVALID_ARGUMENTS",
                 "Failed to parse arguments JSON: " \o parsed.err, JNull)))
        ELSE IF IsNone(definition)
        THEN End(ExecReturn(ToolResultFail("TOOL_NOT_FOUND",
                 "Tool '" \o tool_name \o "' is not registered", JNull)))
        ELSE IF IsNone(handler) \/ Val(handler) = HandlerNone
        THEN End(ExecReturn(ToolResultFail("HANDLER_NOT_FOUND",
                 "Handler for tool '" \o tool_name \o "' is not registered", JNull)))
        ELSE IF ValidationRaises(Val(definition), args)
        THEN End(ExecRaise("TypeError", "argument of type '" \o args.kind
                                         \o "' is not iterable"))
        ELSE IF Len(missing) > 0
        THEN End(ExecReturn(ToolResultFail("MISSING_PARAMETERS",
                 "Missing required parameters: " \o Join(", ", missing),
                 MissingDetails(missing))))
        ELSE IF Truthy(context) /\ args.kind # "dict"
        THEN End(ExecRaise("TypeError", "'" \o args.kind \o "' object is not a mapping"))
        ELSE [done |-> FALSE, out |-> ExecReturn(ToolResultOk(JNull, JNull)),
              handler |-> Val(handler),
              args |-> IF Truthy(context)
                       THEN JDict(MergeContext(args.d, context.d)) ELSE args]

AfterPrepareAsync(p) == IF p.done THEN p.out ELSE InvokeAsync(p.handler, p.args)
AfterPrepareSync(p) == IF p.done THEN p.out ELSE InvokeSync(p.handler, p.args)

ToolExecutor_execute(reg, tool_name, arguments, context) ==
    AfterPrepareAsync(Prepare(reg, tool_name, arguments, context))

ToolExecutor_execute_sync(reg, tool_name, arguments, context) ==
    AfterPrepareSync(Prepare(reg, tool_name, arguments, context))

-----------------------------------------------------------------------------
(* OperationExtractor.                                                     *)

CAMPAIGN_KEYS == <<"campaigns", "campaignOptions", "suggestedCampaigns", "campaignProposals">>
CONTENT_KEYS ==
    <<"contents", "contentItems", "suggestedContent", "posts", "socialPosts",
      "contentCalendar">>
CREATE_FLAGS == <<"createInSystem", "saveToDatabase", "autoCreate", "save", "create">>

\* OperationExtractor(): infer_operations=True, require_create_flag=True
DefaultExtractor == [infer_operations |-> TRUE, require_create_flag |-> TRUE]

\* str.lower(), str.upper() and str.replace("-", "_") on the strings the model
\* uses; a string not listed has no character the method changes.
StrLower(s) ==
    CASE s = "Blog-Post" -> "blog-post"
      [] s = "EMAIL" -> "email"
      [] s = "LinkedIn" -> "linkedin"
      [] s = "AD_COPY" -> "ad_copy"
      [] OTHER -> s
StrUpper(s) ==
    CASE s = "Blog-Post" -> "BLOG-POST"
      [] s = "blog" -> "BLOG"
      [] s = "email" -> "EMAIL"
      [] s = "video" -> "VIDEO"
      [] s = "landing_page" -> "LANDING_PAGE"
      [] s = "linkedin" -> "LINKEDIN"
      [] OTHER -> s
StrReplaceDash(s) ==
    CASE s = "blog-post" -> "blog_post"
      [] OTHER -> s

TypeMap ==
    <<KV("blog", "BLOG_POST"), KV("blog_post", "BLOG_POST"), KV("blogpost", "BLOG_POST"),
      KV("social", "SOCIAL_POST"), KV("social_post", "SOCIAL_POST"),
      KV("socialpost", "SOCIAL_POST"), KV("post", "SOCIAL_POST"), KV("email", "EMAIL"),
      KV("ad", "AD_COPY"), KV("ad_copy", "AD_COPY"), KV("adcopy", "AD_COPY"),
      KV("landing", "LANDING_PAGE"), KV("landing_page", "LANDING_PAGE"),
      KV("landingpage", "LANDING_PAGE")>>

ValidTypes == {"BLOG_POST", "SOCIAL_POST", "EMAIL", "AD_COPY", "LANDING_PAGE"}

\* [raised, type]
infer_content_type(content) ==
    LET explicit_type == Or(JGet(content, "type"), JGet(content, "contentType"))
        normalized == StrReplaceDash(StrLower(explicit_type.s))
        channelV == JGetD(content, "channel", JStr(""))
        channel == StrLower(channelV.s)
        FromChannel ==
            IF channelV.kind # "str" THEN [raised |-> TRUE, type |-> ""]
            ELSE IF channel \in {"facebook", "instagram", "linkedin", "twitter"}
            THEN [raised |-> FALSE, type |-> "SOCIAL_POST"]
            ELSE IF channel = "blog" THEN [raised |-> FALSE, type |-> "BLOG_POST"]
            ELSE IF channel = "email" THEN [raised |-> FALSE, type |-> "EMAIL"]
            ELSE [raised |-> FALSE, type |-> "SOCIAL_POST"]
    IN  IF Truthy(explicit_type)
        THEN IF explicit_type.kind # "str" THEN [raised |-> TRUE, type |-> ""]
             ELSE IF DictHas(TypeMap, normalized)
             THEN [raised |-> FALSE, type |-> Val(DictGet(TypeMap, normalized))]
             ELSE IF StrUpper(explicit_type.s) \in ValidTypes
             THEN [raised |-> FALSE, type |-> StrUpper(explicit_type.s)]
             ELSE FromChannel
        ELSE FromChannel

\* A faulty check that lets every item through.
ShouldCreateAlways(cfg, item) == TRUE

should_create(cfg, item) ==
    IF ~cfg.require_create_flag THEN TRUE
    ELSE \E i \in 1..Len(CREATE_FLAGS) : Truthy(JGetD(item, CREATE_FLAGS[i], JBool(FALSE)))

\* {k: v for k, v in data.items() if v is not None}
DropNone(d) == SelectSeq(d, LAMBDA e : e.v.kind # "NoneType")

Metadata(execution_id) ==
    JDict(<<KV("aiGenerated", JBool(TRUE)),
            KV("sourceExecutionId", Or(execution_id, JStr("inferred")))>>)

\* A faulty loop body that converts a campaign whether or not a brand id
\* resolves.
CampaignItemUngated(cfg, campaign, brand_id, execution_id) ==
    IF campaign.kind # "dict" THEN <<>>
    ELSE IF ~should_create(cfg, campaign) THEN <<>>
    ELSE <<JDict(<<KV("type", JStr("create_campaign")),
                   KV("brandId", Or(JGet(campaign, "brandId"),
                                    Or(JGet(campaign, "brand_id"), brand_id))),
                   KV("data", JDict(<<KV("name", JGet(campaign, "name")),
                                      KV("status", JStr("DRAFT"))>>)),
                   KV("metadata", Metadata(execution_id))>>)>>

\* One pass of the loop body of _convert_campaigns_to_operations:
\* the operations the item adds (none or one).
CampaignItem(cfg, campaign, brand_id, execution_id) ==
    LET item_brand_id == Or(JGet(campaign, "brandId"), Or(JGet(campaign, "brand_id"), brand_id))
        startDate == Or(JGet(campaign, "startDate"), JGet(campaign, "start_date"))
        endDate == Or(JGet(campaign, "endDate"), JGet(campaign, "end_date"))
        data0 == <<KV("name", JGet(campaign, "name")),
                   KV("description", JGet(campaign, "description")),
                   KV("goal", JGet(campaign, "goal")),
                   KV("targetAudience",
                      Or(JGet(campaign, "targetAudience"), JGet(campaign, "target_audience"))),
                   KV("channels", JGetD(campaign, "channels", JList(<<>>))),
                   KV("status", JStr("DRAFT"))>>
        data1 == SetIfTruthy(data0, "startDate", startDate)
        data2 == SetIfTruthy(data1, "endDate", endDate)
    IN  IF campaign.kind # "dict" THEN <<>>
        ELSE IF ~should_create(cfg, campaign) THEN <<>>
        ELSE IF ~Truthy(item_brand_id) THEN <<>>
        ELSE <<JDict(<<KV("type", JStr("create_campaign")),
                       KV("brandId", item_brand_id),
                       KV("data", JDict(DropNone(data2))),
                       KV("metadata", Metadata(execution_id))>>)>>

RECURSIVE CampaignItems(_, _, _, _)
CampaignItems(cfg, items, brand_id, execution_id) ==
    IF Len(items) = 0 THEN <<>>
    ELSE CampaignItem(cfg, Head(items), brand_id, execution_id)
         \o CampaignItems(cfg, Tail(items), brand_id, execution_id)

convert_campaigns_to_operations(cfg, campaigns, brand_id, execution_id) ==
    IF campaigns.kind # "list" THEN <<>>
    ELSE CampaignItems(cfg, campaigns.l, brand_id, execution_id)

\* One pass of the loop body of _convert_contents_to_operations: [raised, ops].
ContentItem(cfg, content, brand_id, campaign_id, execution_id) ==
    LET item_brand_id == Or(JGet(content, "brandId"), Or(JGet(content, "brand_id"), brand_id))
        item_campaign_id ==
            Or(JGet(content, "campaignId"), Or(JGet(content, "campaign_id"), campaign_id))
        content_type == infer_content_type(content)
        body == Or(JGet(content, "body"),
                   Or(JGet(content, "content"),
                      Or(JGet(content, "text"), JGet(content, "message"))))
        data0 == <<KV("type", JStr(content_type.type)),
                   KV("channel", JGetD(content, "channel", JStr("linkedin"))),
                   KV("title", JGet(content, "title")),
                   KV("body", body),
                   KV("status", JStr("DRAFT"))>>
        data1 == SetIfTruthy(data0, "mediaUrls",
                             Or(JGet(content, "mediaUrls"), JGet(content, "media_urls")))
        data2 == SetIfTruthy(data1, "scheduledAt",
                             Or(JGet(content, "scheduledAt"), JGet(content, "scheduled_at")))
        op0 == <<KV("type", JStr("create_content")),
                 KV("brandId", item_brand_id),
                 KV("data", JDict(DropNone(data2))),
                 KV("metadata", Metadata(execution_id))>>
        op1 == SetIfTruthy(op0, "campaignId", item_campaign_id)
        Skip == [raised |-> FALSE, ops |-> <<>>]
    IN  IF content.kind # "dict" THEN Skip
        ELSE IF ~should_create(cfg, content) THEN Skip
        ELSE IF ~Truthy(item_brand_id) THEN Skip
        ELSE IF content_type.raised THEN [raised |-> TRUE, ops |-> <<>>]
        ELSE IF ~Truthy(body) THEN Skip
        ELSE [raised |-> FALSE, ops |-> <<JDict(op1)>>]

\* operations.extend(...) after earlier passes: an exception ends the loop
Extend(first, rest) ==
    IF first.raised THEN first
    ELSE [raised |-> rest.raised, ops |-> first.ops \o rest.ops]

RECURSIVE ContentItems(_, _, _, _, _)
ContentItems(cfg, items, brand_id, campaign_id, execution_id) ==
    IF Len(items) = 0 THEN [raised |-> FALSE, ops |-> <<>>]
    ELSE Extend(ContentItem(cfg, Head(items), brand_id, campaign_id, execution_id),
                ContentItems(cfg, Tail(items), brand_id, campaign_id, execution_id))

convert_contents_to_operations(cfg, contents, brand_id, campaign_id, execution_id) ==
    IF contents.kind # "list" THEN [raised |-> FALSE, ops |-> <<>>]
    ELSE ContentItems(cfg, contents.l, brand_id, campaign_id, execution_id)

\* step 1 of extract(): operations carried by the tool results
RECURSIVE ToolResultOperations(_)
ToolResultOperations(tool_results) ==
    IF Len(tool_results) = 0 THEN <<>>
    ELSE LET result == Head(tool_results)
             this == IF result.kind # "dict" THEN <<>>
                     ELSE IF Truthy(JGet(result, "entity_operation"))
                     THEN <<JGet(result, "entity_operation")>>
                     ELSE IF Truthy(JGet(result, "entityOperation"))
                     THEN <<JGet(result, "entityOperation")>>
                     ELSE <<>>
         IN  this \o ToolResultOperations(Tail(tool_results))

RECURSIVE InferCampaigns(_, _, _, _, _)
InferCampaigns(cfg, keys, agent_output, brand_id, execution_id) ==
    IF Len(keys) = 0 THEN <<>>
    ELSE (IF DictHas(agent_output.d, Head(keys))
          THEN convert_campaigns_to_operations(cfg, JGet(agent_output, Head(keys)),
                                               brand_id, execution_id)
          ELSE <<>>)
         \o InferCampaigns(cfg, Tail(keys), agent_output, brand_id, execution_id)

RECURSIVE InferContents(_, _, _, _, _, _)
InferContents(cfg, keys, agent_output, brand_id, campaign_id, execution_id) ==
    IF Len(keys) = 0 THEN [raised |-> FALSE, ops |-> <<>>]
    ELSE Extend(IF DictHas(agent_output.d, Head(keys))
                THEN convert_contents_to_operations(cfg, JGet(agent_output, Head(keys)),
                                                    brand_id, campaign_id, execution_id)
                ELSE [raised |-> FALSE, ops |-> <<>>],
                InferContents(cfg, Tail(keys), agent_output, brand_id, campaign_id,
                              execution_id))

Extracted(cleaned, operations) ==
    [raised |-> FALSE, exc |-> Exc("", ""), cleaned |-> cleaned, operations |-> operations]

RECURSIVE Distinct(_)
Distinct(seq) ==
    IF Len(seq) = 0 THEN <<>>
    ELSE LET front == Distinct(SubSeq(seq, 1, Len(seq) - 1))
         IN  IF \E i \in 1..Len(front) : front[i] = seq[Len(seq)]
             THEN front ELSE Append(front, seq[Len(seq)])

\* A faulty extractor that takes an explicit entry only the first time it
\* occurs.
ExplicitOperationsDistinct(agent_output) ==
    IF agent_output.kind = "dict" /\ DictHas(agent_output.d, "entityOperations")
       /\ JGet(agent_output, "entityOperations").kind = "list"
    THEN Distinct(JGet(agent_output, "entityOperations").l)
    ELSE <<>>

\* step 2 of extract(): the explicit entityOperations list and its removal
ExplicitOperations(agent_output) ==
    IF agent_output.kind = "dict" /\ DictHas(agent_output.d, "entityOperations")
       /\ JGet(agent_output, "entityOperations").kind = "list"
    THEN JGet(agent_output, "entityOperations").l
    ELSE <<>>

\* A faulty extractor that also removes the keys it infers operations from.
RemoveExplicitAndSources(agent_output) ==
    IF agent_output.kind = "dict" /\ DictHas(agent_output.d, "entityOperations")
    THEN JDict(SelectSeq(agent_output.d,
                         LAMBDA e : e.k \notin ({"entityOperations"} \cup Range(CAMPAIGN_KEYS)
                                                    \cup Range(CONTENT_KEYS))))
    ELSE agent_output

RemoveExplicit(agent_output) ==
    IF agent_output.kind = "dict" /\ DictHas(agent_output.d, "entityOperations")
    THEN JDict(DictDel(agent_output.d, "entityOperations"))
    ELSE agent_output

\* A faulty extractor that scans the content keys before the campaign keys.
ExtendInferredContentFirst(cleaned, operations, campaigns, contents) ==
    IF contents.raised
    THEN [raised |-> TRUE,
          exc |-> Exc("AttributeError", "object has no attribute 'lower'"),
          cleaned |-> JNull, operations |-> <<>>]
    ELSE Extracted(cleaned, operations \o contents.ops \o campaigns)

\* the end of extract(): the campaign operations, then the content operations
ExtendInferred(cleaned, operations, campaigns, contents) ==
    IF contents.raised
    THEN [raised |-> TRUE,
          exc |-> Exc("AttributeError", "object has no attribute 'lower'"),
          cleaned |-> JNull, operations |-> <<>>]
    ELSE Extracted(cleaned, operations \o campaigns \o contents.ops)

\* `if self.infer_operations:` with the default ids resolved
InferFrom(cfg, cleaned, operations, default_brand_id, default_campaign_id, execution_id) ==
    ExtendInferred(cleaned, operations,
        InferCampaigns(cfg, CAMPAIGN_KEYS, cleaned, default_brand_id, execution_id),
        InferContents(cfg, CONTENT_KEYS, cleaned, default_brand_id, default_campaign_id,
                      execution_id))

\* extract() after steps 1 and 2: agent_output is the cleaned output
ExtractCleaned(cfg, cleaned, operations, brand_id, campaign_id, execution_id) ==
    IF cleaned.kind # "dict" \/ ~cfg.infer_operations
    THEN Extracted(cleaned, operations)
    ELSE InferFrom(cfg, cleaned, operations,
                   Or(brand_id, JGet(cleaned, "brandId")),
                   Or(campaign_id, JGet(cleaned, "campaignId")), execution_id)

\* [raised, exc, cleaned, operations]
extract(cfg, agent_output, tool_results, brand_id, campaign_id, execution_id) ==
    ExtractCleaned(cfg, RemoveExplicit(agent_output),
                   ToolResultOperations(tool_results) \o ExplicitOperations(agent_output),
                   brand_id, campaign_id, execution_id)

-----------------------------------------------------------------------------
(* AgentRuntime.execute.                                                   *)
(*                                                                         *)
(* start_time and duration_ms are wall-clock readings; no other value      *)
(* depends on them and the model leaves them out.                          *)

Runs == {"A", "B"}

\* A faulty runtime that keeps the locals on the AgentRuntime instance, one
\* copy for all runs.
SharedSlot(r) == "A"

\* total_tokens, all_tool_calls and messages are locals of one execute() call:
\* the storage a run reads and writes is its own.
Slot(r) == r

ZeroTokens == [prompt |-> 0, completion |-> 0, total |-> 0]

Msg(role, content, tool_call_id, tool_calls) ==
    [role |-> role, content |-> content, tool_call_id |-> tool_call_id,
     tool_calls |-> tool_calls]

\* A str holding the JSON encoding of value (model_dump_json).
JsonText(value) == [kind |-> "str", s |-> "<json>", l |-> <<value>>, d |-> <<>>]

AgentExecutionOutput(success, out, entity_operations, tool_calls, tokens_used, error) ==
    [success |-> success, output |-> out, entity_operations |-> entity_operations,
     tool_calls |-> tool_calls, tokens_used |-> tokens_used, error |-> error]

ErrorDict(code, message) == JDict(<<KV("code", JStr(code)), KV("message", JStr(message))>>)

\* How a call of execute() ends: the value returned, or the exception raised.
Return(out) == [returned |-> Some(out), escaped |-> None]
Escape(exc) == [returned |-> None, escaped |-> Some(exc)]

\* A faulty except clause that reports no tool calls and no tokens.
ExceptClauseForgetsProgress(exc, tool_calls, tokens) ==
    Return(AgentExecutionOutput(FALSE, JNull, <<>>, <<>>,
                                [prompt |-> 0, completion |-> 0, total |-> 0],
                                ErrorDict(exc.cls, exc.msg)))

\* A faulty except clause that lets a TypeError through to the caller.
ExceptClauseReraisesTypeError(exc, tool_calls, tokens) ==
    IF exc.cls = "TypeError" THEN Escape(exc)
    ELSE Return(AgentExecutionOutput(FALSE, JNull, <<>>, tool_calls, tokens,
                                     ErrorDict(exc.cls, exc.msg)))

\* except Exception as e: ...
ExceptClause(exc, tool_calls, tokens) ==
    Return(AgentExecutionOutput(FALSE, JNull, <<>>, tool_calls, tokens,
                                ErrorDict(exc.cls, exc.msg)))

\* the return after the for loop
\* A faulty runtime that reports the operations of the recorded tool calls
\* when the iteration cap ends the run.
MaxIterationsReturnWithOperations(inp, tool_calls, tokens) ==
    Return(AgentExecutionOutput(FALSE, JNull,
               ToolResultOperations([i \in 1..Len(tool_calls) |-> tool_calls[i].result]),
               tool_calls, tokens,
               ErrorDict("MAX_ITERATIONS",
                         "Agent exceeded maximum tool calling iterations ("
                             \o ToString(inp.max_iterations) \o ")")))

MaxIterationsReturn(inp, tool_calls, tokens) ==
    Return(AgentExecutionOutput(FALSE, JNull, <<>>, tool_calls, tokens,
               ErrorDict("MAX_ITERATIONS",
                         "Agent exceeded maximum tool calling iterations ("
                             \o ToString(inp.max_iterations) \o ")")))

\* A faulty token tracker that assigns the latest usage instead of adding it.
TrackTokensOverwrites(tokens, usage) ==
    IF IsNone(usage) THEN tokens
    ELSE [prompt |-> Val(usage).prompt_tokens,
          completion |-> Val(usage).completion_tokens,
          total |-> Val(usage).total_tokens]

\* if response.usage: total_tokens[...] += response.usage....
TrackTokens(tokens, usage) ==
    IF IsNone(usage) THEN tokens
    ELSE [prompt |-> tokens.prompt + Val(usage).prompt_tokens,
          completion |-> tokens.completion + Val(usage).completion_tokens,
          total |-> tokens.total + Val(usage).total_tokens]

format_tool_call(call_id, name, arguments, result) ==
    [id |-> call_id, name |-> name, arguments |-> arguments, result |-> result]

\* the context argument of tool_executor.execute
RunContext(inp) ==
    JDict(<<KV("execution_id", JStr(inp.execution_id)),
            KV("tenant_context", inp.context)>>)

ExecuteToolCall(reg, inp, tc) ==
    ToolExecutor_execute(reg, tc.name, JStr(tc.arguments), RunContext(inp))

ToolMessage(tc, result) == Msg("tool", JsonText(ModelDump(result)), tc.id, <<>>)

\* final_output: parsed as JSON when it looks like JSON and parses
ParseFinal(content) ==
    IF Truthy(content) /\ StripStartsWithBrace(content.s)
    THEN IF json_loads(content.s).ok THEN json_loads(content.s).value ELSE content
    ELSE content

\* The else branch of the loop body: extraction and the successful return.
\* Building AgentExecutionOutput validates entity_operations: List[Dict].
SuccessReturn(ex, tool_calls, tokens) ==
    IF ex.raised THEN ExceptClause(ex.exc, tool_calls, tokens)
    ELSE IF \E i \in 1..Len(ex.operations) : ex.operations[i].kind # "dict"
    THEN ExceptClause(Exc("ValidationError",
                          "entity_operations: Input should be a valid dictionary"),
                      tool_calls, tokens)
    ELSE Return(AgentExecutionOutput(TRUE, ex.cleaned, ex.operations, tool_calls,
                                     tokens, JNull))

\* A faulty final step that hands no tool results to the extractor.
FinalReturnWithoutToolResults(inp, content, tool_calls, tokens) ==
    SuccessReturn(extract(DefaultExtractor, ParseFinal(content), <<>>,
                          JGet(inp.context, "brandId"), JNull, JStr(inp.execution_id)),
                  tool_calls, tokens)

FinalReturn(inp, content, tool_calls, tokens) ==
    SuccessReturn(extract(DefaultExtractor, ParseFinal(content),
                          [i \in 1..Len(tool_calls) |-> tool_calls[i].result],
                          JGet(inp.context, "brandId"), JNull, JStr(inp.execution_id)),
                  tool_calls, tokens)

-----------------------------------------------------------------------------
(* The environment: callers, the LLM client, the context formatter.        *)

ToolCall(id, name, arguments) == [id |-> id, name |-> name, arguments |-> arguments]

\* assistant_msg.tool_calls of the LLM responses that call tools
LLMTurns ==
    <<  <<ToolCall("call_1", "create_campaign", TextFull)>>,
        <<ToolCall("call_2", "create_campaign", TextBad),
          ToolCall("call_3", "search_knowledge_base", TextQuery)>>,
        <<ToolCall("call_4", "create_campaign", TextBrand),
          ToolCall("call_5", "unknown_tool", TextEmpty)>>,
        <<ToolCall("call_6", "pending_tool", TextEmpty),
          ToolCall("call_7", "flaky_tool", TextEmpty)>>,
        <<ToolCall("call_8", "create_campaign", TextBrand),
          ToolCall("call_9", "search_knowledge_base", TextNull)>>,
        <<ToolCall("call_10", "raw_tool", TextEmpty),
          ToolCall("call_11", "fetch_tool", TextQuery)>>,
        <<ToolCall("call_12", "ping", TextQuery),
          ToolCall("call_13", "create_campaign", TextFax)>>  >>

\* assistant_msg.content of the LLM responses that call no tool
LLMContents ==
    <<JStr(ContentDone), JNull, JStr(ContentExplicit), JStr(ContentCampaigns),
      JStr(ContentNullChannel), JStr(ContentBadOps), JStr(ContentBroken),
      JStr(ContentPosts)>>

\* response.usage
LLMUsages ==
    <<None,
      Some([prompt_tokens |-> 10, completion_tokens |-> 5, total_tokens |-> 15]),
      Some([prompt_tokens |-> 7, completion_tokens |-> 2, total_tokens |-> 9])>>

\* exceptions the LLM client raises
LLMErrors == <<Exc("Exception", "API Error"), Exc("APITimeoutError", "Request timed out.")>>

Response(usage, tool_calls, content) ==
    [raised |-> FALSE, exc |-> Exc("", ""), usage |-> usage, tool_calls |-> tool_calls,
     content |-> content]
Failure(exc) ==
    [raised |-> TRUE, exc |-> exc, usage |-> None, tool_calls |-> <<>>, content |-> JNull]

\* EntityContext.model_dump(by_alias=True), tenant scope only
EntityContext(user_id, brand_id) ==
    JDict(<<KV("userId", JStr(user_id)), KV("brandId", brand_id)>>)

AgentExecutionInput(execution_id, context, enabled_tools, max_iterations) ==
    [execution_id |-> execution_id, context |-> context,
     enabled_tools |-> enabled_tools, max_iterations |-> max_iterations]

Callers ==
    <<[execution_id |-> "exec_1", context |-> EntityContext("user_1", JNull),
       enabled_tools |-> <<>>],
      [execution_id |-> "exec_2", context |-> EntityContext("user_2", JStr("brand_123")),
       enabled_tools |-> <<"bigripple.campaign.create">>]>>

NoInput == AgentExecutionInput("", JNull, <<>>, 0)
NoResponse == Failure(Exc("", ""))
NoToolCall == ToolCall("", "", "")

LLMEvent(resp) ==
    [ev |-> "llm", resp |-> resp, call |-> NoToolCall, out |-> ExecReturn(ToolResultOk(JNull, JNull))]
ToolEvent(tc, out) == [ev |-> "tool", resp |-> NoResponse, call |-> tc, out |-> out]
PromptEvent(raised) ==
    [ev |-> "prompt",
     resp |-> IF raised THEN Failure(Exc("AttributeError", "context formatter failed"))
              ELSE Response(None, <<>>, JNull),
     call |-> NoToolCall, out |-> ExecReturn(ToolResultOk(JNull, JNull))]

NoCall == [tool_name |-> "", arguments |-> JNull, context |-> JNull]

-----------------------------------------------------------------------------
(* Actions of a run of execute().                                          *)

Finish(r, res) ==
    /\ pc' = [pc EXCEPT ![r] = "done"]
    /\ output' = [output EXCEPT ![r] = res.returned]
    /\ escaped' = [escaped EXCEPT ![r] = res.escaped]

Goto(r, label) ==
    /\ pc' = [pc EXCEPT ![r] = label]
    /\ UNCHANGED <<output, escaped>>

\* messages = [system prompt with context, user input]
InitialMessages ==
    <<Msg("system", JStr("system prompt and context"), "", <<>>),
      Msg("user", JStr("user input"), "", <<>>)>>

\* execute() up to its first await: the locals, the prompt, the first LLM call.
Start(r, inp, formatterRaises) ==
    /\ pc[r] = "idle"
    /\ input' = [input EXCEPT ![r] = inp]
    /\ total_tokens' = [total_tokens EXCEPT ![Slot(r)] = ZeroTokens]
    /\ all_tool_calls' = [all_tool_calls EXCEPT ![Slot(r)] = <<>>]
    /\ trace' = [trace EXCEPT ![r] = <<PromptEvent(formatterRaises)>>]
    /\ IF formatterRaises
       THEN /\ Finish(r, ExceptClause(PromptEvent(TRUE).resp.exc,
                                      all_tool_calls'[Slot(r)], total_tokens'[Slot(r)]))
            /\ UNCHANGED <<messages, iteration>>
       ELSE /\ messages' = [messages EXCEPT ![Slot(r)] = InitialMessages]
            /\ IF inp.max_iterations >= 1
               THEN /\ iteration' = [iteration EXCEPT ![r] = 1]
                    /\ Goto(r, "llm")
               ELSE /\ Finish(r, MaxIterationsReturn(inp, all_tool_calls'[Slot(r)],
                                                     total_tokens'[Slot(r)]))
                    /\ UNCHANGED iteration
    /\ UNCHANGED <<registry, turn, tcIndex, call, callOut>>

\* The awaited chat.completions.create returns resp or raises.
LLMResponds(r, resp) ==
    /\ pc[r] = "llm"
    /\ trace' = [trace EXCEPT ![r] = Append(@, LLMEvent(resp))]
    /\ IF resp.raised
       THEN /\ Finish(r, ExceptClause(resp.exc, all_tool_calls[Slot(r)],
                                      total_tokens[Slot(r)]))
            /\ UNCHANGED <<total_tokens, messages, turn, tcIndex>>
       ELSE /\ total_tokens' = [total_tokens EXCEPT ![Slot(r)] = TrackTokens(@, resp.usage)]
            /\ IF Len(resp.tool_calls) > 0
               THEN /\ messages' = [messages EXCEPT ![Slot(r)] =
                                       Append(@, Msg("assistant", resp.content, "",
                                                     resp.tool_calls))]
                    /\ turn' = [turn EXCEPT ![r] = resp.tool_calls]
                    /\ tcIndex' = [tcIndex EXCEPT ![r] = 1]
                    /\ Goto(r, "tool")
               ELSE /\ Finish(r, FinalReturn(input[r], resp.content,
                                             all_tool_calls[Slot(r)],
                                             total_tokens'[Slot(r)]))
                    /\ UNCHANGED <<messages, turn, tcIndex>>
    /\ UNCHANGED <<registry, input, iteration, all_tool_calls, call, callOut>>

\* A faulty loop that walks the turn's tool calls last to first.
CurrentToolCallReversed(tool_calls, index) == tool_calls[Len(tool_calls) + 1 - index]

\* for tool_call in assistant_msg.tool_calls: the call of pass number index
CurrentToolCall(tool_calls, index) == tool_calls[index]

\* One pass of `for tool_call in assistant_msg.tool_calls` with the executor's
\* outcome; after the last pass, the next iteration's LLM call or the return
\* after the loop.
ToolCallDone(r, tc, out) ==
    /\ trace' = [trace EXCEPT ![r] = Append(@, ToolEvent(tc, out))]
    /\ IF out.raised
       THEN /\ Finish(r, ExceptClause(out.exc, all_tool_calls[Slot(r)],
                                      total_tokens[Slot(r)]))
            /\ UNCHANGED <<all_tool_calls, messages, tcIndex, iteration>>
       ELSE /\ all_tool_calls' = [all_tool_calls EXCEPT ![Slot(r)] =
                   Append(@, format_tool_call(tc.id, tc.name, tc.arguments,
                                              ModelDump(out.ret)))]
            /\ messages' = [messages EXCEPT ![Slot(r)] =
                               Append(@, ToolMessage(tc, out.ret))]
            /\ IF tcIndex[r] < Len(turn[r])
               THEN /\ tcIndex' = [tcIndex EXCEPT ![r] = @ + 1]
                    /\ Goto(r, "tool")
                    /\ UNCHANGED iteration
               ELSE IF iteration[r] < input[r].max_iterations
               THEN /\ iteration' = [iteration EXCEPT ![r] = @ + 1]
                    /\ Goto(r, "llm")
                    /\ UNCHANGED tcIndex
               ELSE /\ Finish(r, MaxIterationsReturn(input[r],
                                     all_tool_calls'[Slot(r)],
                                     total_tokens[Slot(r)]))
                    /\ UNCHANGED <<tcIndex, iteration>>

ToolStep(r) ==
    /\ pc[r] = "tool"
    /\ ToolCallDone(r, CurrentToolCall(turn[r], tcIndex[r]),
                    ExecuteToolCall(registry, input[r], CurrentToolCall(turn[r], tcIndex[r])))
    /\ UNCHANGED <<registry, input, total_tokens, turn, call, callOut>>

\* A direct call of the executor, awaited (execute) and blocking (execute_sync).
ExecuteTool ==
    /\ call # NoCall
    /\ IsNone(callOut)
    /\ callOut' = Some([async |-> ToolExecutor_execute(registry, call.tool_name,
                                                      call.arguments, call.context),
                        sync |-> ToolExecutor_execute_sync(registry, call.tool_name,
                                                          call.arguments, call.context)])
    /\ UNCHANGED <<registry, call>>
    /\ UNCHANGED runVars

-----------------------------------------------------------------------------
(* Specifications.                                                         *)

IdleRuns ==
    /\ pc = [r \in Runs |-> "idle"]
    /\ input = [r \in Runs |-> NoInput]
    /\ iteration = [r \in Runs |-> 0]
    /\ messages = [r \in Runs |-> <<>>]
    /\ total_tokens = [r \in Runs |-> ZeroTokens]
    /\ all_tool_calls = [r \in Runs |-> <<>>]
    /\ turn = [r \in Runs |-> <<>>]
    /\ tcIndex = [r \in Runs |-> 0]
    /\ output = [r \in Runs |-> None]
    /\ escaped = [r \in Runs |-> None]
    /\ trace = [r \in Runs |-> <<>>]

\* One run of execute() on a runtime built on the default registry.
Init ==
    /\ registry = DefaultRegistry
    /\ IdleRuns
    /\ call = NoCall
    /\ callOut = None

StartRun(r) ==
    \E c \in 1..Len(Callers), k \in 0..MaxIterations, f \in BOOLEAN :
        Start(r, AgentExecutionInput(Callers[c].execution_id, Callers[c].context,
                                     Callers[c].enabled_tools, k), f)

LLMReturnsToolCalls(r) ==
    \E t \in 1..Len(LLMTurns), u \in 1..Len(LLMUsages) :
        LLMResponds(r, Response(LLMUsages[u], LLMTurns[t], JNull))

LLMReturnsContent(r) ==
    \E c \in 1..Len(LLMContents), u \in 1..Len(LLMUsages) :
        LLMResponds(r, Response(LLMUsages[u], <<>>, LLMContents[c]))

LLMRaises(r) == \E e \in 1..Len(LLMErrors) : LLMResponds(r, Failure(LLMErrors[e]))

Next ==
    \/ StartRun("A")
    \/ LLMReturnsToolCalls("A")
    \/ LLMReturnsContent("A")
    \/ LLMRaises("A")
    \/ ToolStep("A")

Spec == Init /\ [][Next]_vars

\* Two runs of execute() on one AgentRuntime, interleaved at their await points.
StartRunOf(r) ==
    \E k \in 1..MaxIterations :
        Start(r, AgentExecutionInput(Callers[IF r = "A" THEN 1 ELSE 2].execution_id,
                                     Callers[IF r = "A" THEN 1 ELSE 2].context,
                                     Callers[IF r = "A" THEN 1 ELSE 2].enabled_tools, k),
              FALSE)

LLMAnswers(r) ==
    \/ \E t \in 1..2 : LLMResponds(r, Response(LLMUsages[2], LLMTurns[t], JNull))
    \/ \E c \in {1, 3} : LLMResponds(r, Response(LLMUsages[3], <<>>, LLMContents[c]))
    \/ LLMResponds(r, Failure(LLMErrors[1]))

NextTwo == \E r \in Runs : StartRunOf(r) \/ LLMAnswers(r) \/ ToolStep(r)

SpecTwo == Init /\ [][NextTwo]_vars

\* Direct calls of the executor for every tool name, arguments value and context.
ToolNames ==
    <<"create_campaign", "search_knowledge_base", "greet_user", "ping", "pending_tool",
      "raw_tool", "fetch_tool", "flaky_tool", "stream_tool", "audit_tool",
      "unknown_tool">>

Contexts == <<JNull, JDict(<<>>), RunContext(Callers[2])>>

InitExec ==
    /\ registry = DefaultRegistry
    /\ IdleRuns
    /\ callOut = None
    /\ \E n \in 1..Len(ToolNames), a \in 1..Len(ArgumentTexts), c \in 1..Len(Contexts),
          structured \in BOOLEAN :
          /\ structured => json_loads(ArgumentTexts[a]).value.kind = "dict"
          /\ call = [tool_name |-> ToolNames[n],
                     arguments |-> IF structured THEN json_loads(ArgumentTexts[a]).value
                                   ELSE JStr(ArgumentTexts[a]),
                     context |-> Contexts[c]]

NextExec == ExecuteTool

SpecExec == InitExec /\ [][NextExec]_vars

-----------------------------------------------------------------------------
(* OperationExtractor.extract called directly, on outputs and tool results *)
(* that cover the sources of operations, the two constructor flags and the *)
(* default ids.                                                            *)

\* Items of the lists under campaign keys; every item has its own name.
CampaignA ==
    JDict(<<KV("name", JStr("A")), KV("brandId", JStr("b1")), KV("create", JBool(TRUE)),
            KV("description", JNull), KV("goal", JStr("leads"))>>)
CampaignB == JDict(<<KV("name", JStr("B")), KV("create", JBool(TRUE))>>)
CampaignC == JDict(<<KV("name", JStr("C")), KV("brandId", JStr("b1"))>>)
CampaignD ==
    JDict(<<KV("name", JStr("D")), KV("brand_id", JStr("b2")), KV("save", JBool(TRUE)),
            KV("start_date", JStr("2026-01-01"))>>)
CampaignE ==
    JDict(<<KV("name", JStr("E")), KV("brandId", JStr("b1")), KV("create", JBool(FALSE)),
            KV("createInSystem", JInt("1"))>>)

\* Items of the lists under content keys; every item with a body has its own.
ContentA ==
    JDict(<<KV("body", JStr("pa")), KV("brandId", JStr("b1")), KV("create", JBool(TRUE)),
            KV("channel", JStr("blog")), KV("title", JNull)>>)
ContentB ==
    JDict(<<KV("text", JStr("pb")), KV("autoCreate", JBool(TRUE)),
            KV("type", JStr("Blog-Post"))>>)
ContentC ==
    JDict(<<KV("brandId", JStr("b1")), KV("create", JBool(TRUE)),
            KV("title", JStr("no body"))>>)
ContentD ==
    JDict(<<KV("content", JStr("pd")), KV("brandId", JStr("b1")),
            KV("channel", JStr("LinkedIn"))>>)
ContentNull ==
    JDict(<<KV("body", JStr("pn")), KV("brandId", JStr("b1")), KV("create", JBool(TRUE)),
            KV("channel", JNull)>>)

ContentIntType ==
    JDict(<<KV("body", JStr("pt")), KV("brandId", JStr("b1")), KV("create", JBool(TRUE)),
            KV("type", JInt("5"))>>)

ExplicitUpdate ==
    JDict(<<KV("type", JStr("update_campaign")), KV("campaignId", JStr("c1")),
            KV("data", JDict(<<KV("status", JStr("ACTIVE"))>>))>>)
ExplicitCreate ==
    JDict(<<KV("type", JStr("create_content")), KV("brandId", JStr("b1")),
            KV("data", JDict(<<KV("body", JStr("hello"))>>))>>)

AgentOutputs ==
    <<JStr("Done."),
      JNull,
      JList(<<CampaignA>>),
      JDict(<<KV("summary", JStr("ok")),
              KV("entityOperations", JList(<<ExplicitUpdate, ExplicitUpdate, ExplicitCreate>>))>>),
      JDict(<<KV("entityOperations", JDict(<<KV("type", JStr("update_campaign"))>>)),
              KV("note", JStr("n"))>>),
      JDict(<<KV("campaignOptions", JList(<<CampaignD, JStr("x")>>)),
              KV("campaigns", JList(<<CampaignA, CampaignB, CampaignC>>))>>),
      JDict(<<KV("posts", JList(<<ContentA, ContentB>>)),
              KV("entityOperations", JList(<<ExplicitUpdate>>)),
              KV("campaigns", JList(<<CampaignB, CampaignE>>)),
              KV("contents", JList(<<ContentC, ContentD, JInt("5")>>))>>),
      JDict(<<KV("brandId", JStr("b9")),
              KV("campaigns", JList(<<CampaignB>>)),
              KV("posts", JList(<<ContentB>>))>>),
      JDict(<<KV("posts", JList(<<ContentA, ContentNull>>))>>),
      JDict(<<KV("socialPosts", JList(<<ContentIntType>>))>>),
      JDict(<<KV("campaigns", JStr("none yet")),
              KV("posts", JDict(<<KV("body", JStr("pz"))>>))>>)>>

\* ToolResult.model_dump() of what the executor returns for a call
ExecutedDump(tool_name, text) ==
    ModelDump(ToolExecutor_execute(DefaultRegistry, tool_name, JStr(text), JNull).ret)

ToolResultLists ==
    <<<<>>,
      <<ExecutedDump("create_campaign", TextFull),
        ExecutedDump("create_campaign", TextFull)>>,
      <<ExecutedDump("create_campaign", TextBrand),
        ExecutedDump("create_campaign", TextFull),
        ExecutedDump("create_campaign", TextFull)>>,
      <<JDict(<<KV("entity_operation", ExplicitCreate),
                KV("entityOperation", ExplicitUpdate)>>),
        JStr("not a dict"),
        JDict(<<KV("entityOperation", ExplicitUpdate)>>)>>,
      <<ExecutedDump("create_campaign", TextNullName)>>>>

ExtractorConfigs ==
    {[infer_operations |-> i, require_create_flag |-> r] : i, r \in BOOLEAN}

InitExtract ==
    /\ registry = DefaultRegistry
    /\ IdleRuns
    /\ callOut = None
    /\ \E cfg \in ExtractorConfigs, o \in 1..Len(AgentOutputs), t \in 1..Len(ToolResultLists),
          brand_id \in {JNull, JStr("brand_123")}, campaign_id \in {JNull, JStr("camp_1")},
          execution_id \in {JNull, JStr("exec_1")} :
          call = [cfg |-> cfg, agent_output |-> AgentOutputs[o],
                  tool_results |-> ToolResultLists[t], brand_id |-> brand_id,
                  campaign_id |-> campaign_id, execution_id |-> execution_id]

ExtractOutput ==
    /\ call # NoCall
    /\ IsNone(callOut)
    /\ callOut' = Some(extract(call.cfg, call.agent_output, call.tool_results,
                               call.brand_id, call.campaign_id, call.execution_id))
    /\ UNCHANGED <<registry, call>>
    /\ UNCHANGED runVars

NextExtract == ExtractOutput

SpecExtract == InitExtract /\ [][NextExtract]_vars

-----------------------------------------------------------------------------
(* A ToolRegistry under any sequence of register, unregister and lookup    *)
(* calls. callOut keeps the registry as it was before the call.            *)

\* Definitions that collide on the id (first and second), on the name (first
\* and third), and that have an empty id or an empty name.
RegistryDefs ==
    <<ToolDefinition("t1", "alpha", <<>>, FALSE),
      ToolDefinition("t1", "beta", <<Param("query", TRUE)>>, FALSE),
      ToolDefinition("t2", "alpha", <<>>, TRUE),
      EmptyIdDef,
      ToolDefinition("t3", "", <<>>, FALSE)>>

RegistryHandlers == <<"lambda", HandlerNone>>

LookupIds == <<"t1", "t2", "t3", "", "missing">>
LookupNames == <<"alpha", "beta", "ping", "", "missing">>

RegistryCall(op, definition, handler, key) ==
    [op |-> op, definition |-> definition, handler |-> handler, key |-> key]

NoRegistryCall == RegistryCall("", RegistryDefs[1], HandlerNone, "")

\* what a call gave back: raised, the value returned, and the registry before
RegistryOutcome(raised, ret, before) == [raised |-> raised, ret |-> ret, before |-> before]

InitRegistry ==
    /\ registry = EmptyRegistry
    /\ IdleRuns
    /\ call = NoRegistryCall
    /\ callOut = None

Register ==
    \E d \in 1..Len(RegistryDefs), h \in 1..Len(RegistryHandlers) :
        /\ registry' = register(registry, RegistryDefs[d], RegistryHandlers[h]).registry
        /\ call' = RegistryCall("register", RegistryDefs[d], RegistryHandlers[h], "")
        /\ callOut' = Some(RegistryOutcome(
                           register(registry, RegistryDefs[d], RegistryHandlers[h]).raised,
                           None, registry))
        /\ UNCHANGED runVars

Unregister ==
    \E i \in 1..Len(LookupIds) :
        /\ registry' = unregister(registry, LookupIds[i]).registry
        /\ call' = RegistryCall("unregister", RegistryDefs[1], HandlerNone, LookupIds[i])
        /\ callOut' = Some(RegistryOutcome(FALSE, unregister(registry, LookupIds[i]).ret,
                                           registry))
        /\ UNCHANGED runVars

\* a lookup returns a value and writes nothing
Lookup(op, key, ret) ==
    /\ call' = RegistryCall(op, RegistryDefs[1], HandlerNone, key)
    /\ callOut' = Some(RegistryOutcome(FALSE, ret, registry))
    /\ UNCHANGED registry
    /\ UNCHANGED runVars

Get == \E i \in 1..Len(LookupIds) : Lookup("get", LookupIds[i], get(registry, LookupIds[i]))

GetByName ==
    \E i \in 1..Len(LookupNames) :
        Lookup("get_by_name", LookupNames[i], get_by_name(registry, LookupNames[i]))

GetHandler ==
    \E i \in 1..Len(LookupIds) :
        Lookup("get_handler", LookupIds[i], get_handler(registry, LookupIds[i]))

GetHandlerByName ==
    \E i \in 1..Len(LookupNames) :
        Lookup("get_handler_by_name", LookupNames[i],
               get_handler_by_name(registry, LookupNames[i]))

\* the arguments to_openai_tools is called with: omitted, empty, one id, two
\* ids against registration order, unknown and repeated ids, the empty id
ExportArguments ==
    <<None, Some(<<>>), Some(<<"t1">>), Some(<<"t2", "t1">>),
      Some(<<"missing", "t1", "", "t1">>), Some(<<"t3", "">>)>>

\* repeated: the call before this one was to_openai_tools with the same
\* argument; previous is what that call returned
ExportOutcome(ret, before, repeated, previous) ==
    [raised |-> FALSE, ret |-> ret, before |-> before, repeated |-> repeated,
     previous |-> previous]

ToOpenaiTools ==
    \E a \in 1..Len(ExportArguments) :
        LET repeated == call.op = "to_openai_tools" /\ call.key = ExportArguments[a]
        IN  /\ registry' = to_openai_tools(registry, ExportArguments[a]).registry
            /\ call' = RegistryCall("to_openai_tools", RegistryDefs[1], HandlerNone,
                                    ExportArguments[a])
            /\ callOut' = Some(ExportOutcome(
                               to_openai_tools(registry, ExportArguments[a]).ret, registry,
                               repeated,
                               IF repeated THEN Val(callOut).ret ELSE <<>>))
            /\ UNCHANGED runVars

NextRegistry ==
    \/ ToOpenaiTools
    \/ Register
    \/ Unregister
    \/ Get
    \/ GetByName
    \/ GetHandler
    \/ GetHandlerByName

SpecRegistry == InitRegistry /\ [][NextRegistry]_vars

-----------------------------------------------------------------------------
(* BigRippleAgent.run (strands/agent.py).                                  *)
(*                                                                         *)
(* The Strands Agent is the environment: calling it raises or returns a    *)
(* result that has a message attribute or only a str() form.  The system   *)
(* prompt built from the context reaches nothing but that call, and        *)
(* duration_ms is a wall-clock reading; the model leaves both out.          *)

AgentResult(success, out, entity_operations, error) ==
    [success |-> success, output |-> out, entity_operations |-> entity_operations,
     error |-> error]

\* the except clause of run()
FailedResult(exc) == AgentResult(FALSE, JNull, <<>>, Some(exc))

\* what agent(prompt) does: [raised, exc, has_message, message, str]
AgentRaises(exc) ==
    [raised |-> TRUE, exc |-> exc, has_message |-> FALSE, message |-> JNull, str |-> ""]
AgentMessage(message) ==
    [raised |-> FALSE, exc |-> Exc("", ""), has_message |-> TRUE, message |-> message,
     str |-> ""]
AgentText(text) ==
    [raised |-> FALSE, exc |-> Exc("", ""), has_message |-> FALSE, message |-> JNull,
     str |-> text]

\* output = result.message if hasattr(result, 'message') else str(result)
ResultOutput(outcome) == IF outcome.has_message THEN outcome.message ELSE JStr(outcome.str)

\* a str that starts with "{" is replaced by its parse when it parses
ParseOutput(out) ==
    IF out.kind = "str" /\ StripStartsWithBrace(out.s) /\ json_loads(out.s).ok
    THEN json_loads(out.s).value
    ELSE out

\* list.extend(value) takes the items of a list and the keys of a dict; a
\* null, an int or a bool is not iterable.  (A str would give its
\* characters; no output of the model has a str under entityOperations.)
IsIterable(value) == value.kind \in {"list", "dict"}
IterItems(value) ==
    IF value.kind = "list" THEN value.l
    ELSE [i \in 1..Len(value.d) |-> JStr(value.d[i].k)]

\* the loop over list(output.keys()): what it appends, in key order
RECURSIVE EmbeddedOperations(_)
EmbeddedOperations(d) ==
    IF d = <<>> THEN <<>>
    ELSE (IF Head(d).k = "entityOperation" THEN <<Head(d).v>>
          ELSE IF Head(d).k = "entityOperations" THEN IterItems(Head(d).v)
          ELSE <<>>) \o EmbeddedOperations(Tail(d))

\* A faulty loop that pops the keys and appends nothing.
EmbeddedOperationsDropped(d) == <<>>

\* extract() returns a new dict when the output has an entityOperations key
\* and the output object itself otherwise: only then do the pops of the loop
\* reach the dict that run() returns.
ReturnedOutput(out, cleaned) ==
    IF out.kind = "dict" /\ ~DictHas(out.d, "entityOperations")
    THEN JDict(DictDel(cleaned.d, "entityOperation"))
    ELSE cleaned

\* the rest of the try block after extract()
CollectEmbedded(out, ex) ==
    IF ex.raised THEN FailedResult(ex.exc)
    ELSE IF out.kind # "dict"
    THEN AgentResult(TRUE, ex.cleaned, ex.operations, None)
    ELSE IF DictHas(out.d, "entityOperations") /\ ~IsIterable(JGet(out, "entityOperations"))
    THEN FailedResult(Exc("TypeError", "object is not iterable"))
    ELSE AgentResult(TRUE, ReturnedOutput(out, ex.cleaned),
                     ex.operations \o EmbeddedOperations(out.d), None)

ExtractAndCollect(out, brand_id, execution_id) ==
    CollectEmbedded(out, extract(DefaultExtractor, out, <<>>, brand_id, JNull, execution_id))

\* context: Optional[EntityContext], given by its brand_id
BigRippleAgent_run(outcome, context, execution_id) ==
    IF outcome.raised THEN FailedResult(outcome.exc)
    ELSE ExtractAndCollect(ParseOutput(ResultOutput(outcome)),
                           IF IsNone(context) THEN JNull ELSE Val(context),
                           execution_id)

EmbeddedSingle ==
    JDict(<<KV("entityOperation", ExplicitCreate), KV("summary", JStr("ok"))>>)
EmbeddedBoth ==
    JDict(<<KV("entityOperation", ExplicitCreate),
            KV("entityOperations", JList(<<ExplicitUpdate>>)),
            KV("summary", JStr("ok"))>>)
EmbeddedNull == JDict(<<KV("entityOperations", JNull), KV("summary", JStr("ok"))>>)

AgentOutcomes ==
    [i \in 1..Len(AgentOutputs) |-> AgentMessage(AgentOutputs[i])]
        \o <<AgentMessage(EmbeddedSingle), AgentMessage(EmbeddedBoth),
             AgentMessage(EmbeddedNull),
             AgentText(ContentDone), AgentText(ContentExplicit), AgentText(ContentBroken),
             AgentText(ContentCampaigns), AgentText(ContentNullChannel),
             AgentRaises(Exc("RuntimeError", "model unavailable"))>>

AgentContexts == {None, Some(JNull), Some(JStr("brand_123"))}

InitAgent ==
    /\ registry = DefaultRegistry
    /\ IdleRuns
    /\ callOut = None
    /\ \E o \in 1..Len(AgentOutcomes), context \in AgentContexts,
          execution_id \in {JNull, JStr("exec_1")} :
          call = [outcome |-> AgentOutcomes[o], context |-> context,
                  execution_id |-> execution_id]

RunAgent ==
    /\ call # NoCall
    /\ IsNone(callOut)
    /\ callOut' = Some(BigRippleAgent_run(call.outcome, call.context, call.execution_id))
    /\ UNCHANGED <<registry, call>>
    /\ UNCHANGED runVars

NextAgent == RunAgent

SpecAgent == InitAgent /\ [][NextAgent]_vars

-----------------------------------------------------------------------------
(* What a run observed, read off its trace.                                *)

IsLLMEvent(e) == e.ev = "llm"
IsToolEvent(e) == e.ev = "tool"
LLMEventsOf(t) == SelectSeq(t, IsLLMEvent)
ToolEventsOf(t) == SelectSeq(t, IsToolEvent)

Done(r) == pc[r] = "done"
PromptBuilt(r) == Len(trace[r]) >= 1 /\ ~trace[r][1].resp.raised

\* an LLM response that came back and calls tools / calls none
CallsTools(e) == IsLLMEvent(e) /\ ~e.resp.raised /\ Len(e.resp.tool_calls) > 0
IsFinalResponse(e) == IsLLMEvent(e) /\ ~e.resp.raised /\ Len(e.resp.tool_calls) = 0
LLMRaised(e) == IsLLMEvent(e) /\ e.resp.raised

OutputCode(o) == IF o.error.kind = "dict" THEN JGet(o.error, "code").s ELSE ""

-----------------------------------------------------------------------------
(* Properties of AgentRuntime.execute, one run (Spec).                     *)

AlwaysToolCalls(t) == \A i \in 1..Len(t) : IsLLMEvent(t[i]) => CallsTools(t[i])

\* C1: with max_iterations = k and an LLM whose every response calls at least
\* one tool, a finished run has made exactly k LLM calls and returned
\* success=false with error code MAX_ITERATIONS.
C1_AlwaysToolCallsEndsAtCap ==
    (Done("A") /\ PromptBuilt("A") /\ AlwaysToolCalls(trace["A"]))
        => /\ Len(LLMEventsOf(trace["A"])) = input["A"].max_iterations
           /\ ~Val(output["A"]).success
           /\ OutputCode(Val(output["A"])) = "MAX_ITERATIONS"

\* C2: an LLM response without tool calls is the last thing a run observes (no
\* LLM call and no tool execution follows it), the run has then returned
\* success=true, and no run makes more than max_iterations LLM calls.
C2_FinalResponseEndsRunWithSuccess ==
    /\ \A i \in 1..Len(trace["A"]) :
           IsFinalResponse(trace["A"][i])
               => /\ i = Len(trace["A"])
                  /\ Done("A")
                  /\ Val(output["A"]).success
    /\ Len(LLMEventsOf(trace["A"])) <= input["A"].max_iterations

WellFormedOutput(o) ==
    \/ o.success /\ o.error = JNull
    \/ /\ ~o.success
       /\ o.error.kind = "dict"
       /\ JGet(o.error, "code").kind = "str"
       /\ JGet(o.error, "code").s # ""
       /\ JGet(o.error, "message").kind = "str"

\* C3: no exception leaves execute(); a finished run has returned exactly one
\* AgentExecutionOutput, which is success=true without an error or
\* success=false with an error holding a code and a message.
C3_ExecuteNeverRaises ==
    /\ IsNone(escaped["A"])
    /\ Done("A") => /\ ~IsNone(output["A"])
                    /\ WellFormedOutput(Val(output["A"]))
    /\ ~Done("A") => IsNone(output["A"])

\* A run ended by an exception raised inside the loop, after a tool call was
\* recorded: the output is the except clause's.
C3_Witness ==
    /\ Done("A")
    /\ ~Val(output["A"]).success
    /\ OutputCode(Val(output["A"])) = "TypeError"
    /\ Len(Val(output["A"]).tool_calls) > 0

ExecutorCodes ==
    {"INVALID_ARGUMENTS", "MISSING_PARAMETERS", "TOOL_NOT_FOUND", "HANDLER_NOT_FOUND",
     "EXECUTION_ERROR"}

\* a tool call the executor answered with one of its own failure codes
FailedAtExecutor(e) ==
    IsToolEvent(e) /\ ~e.out.raised /\ ~e.out.ret.success /\ ErrorCode(e.out.ret) \in ExecutorCodes

\* index in t of the LLM response whose turn the event at index i belongs to
TurnStart(t, i) == CHOOSE n \in 1..i : IsLLMEvent(t[n]) /\ \A m \in (n + 1)..i : IsToolEvent(t[m])
TurnEnd(t, i) == TurnStart(t, i) + Len(t[TurnStart(t, i)].resp.tool_calls)

HasRecord(tool_calls, e) ==
    \E n \in 1..Len(tool_calls) :
        /\ tool_calls[n].id = e.call.id
        /\ tool_calls[n].name = e.call.name
        /\ tool_calls[n].result = ModelDump(e.out.ret)

HasToolMessage(history, e) ==
    \E n \in 1..Len(history) :
        /\ history[n].role = "tool"
        /\ history[n].tool_call_id = e.call.id
        /\ history[n].content = JsonText(ModelDump(e.out.ret))

\* C4: a tool call that fails at the executor level does not end the run: its
\* failed result is in tool_calls and in the history as a role=tool message
\* for its call id, the remaining calls of its turn are executed, and the
\* next LLM call is made unless the iteration cap is reached, in which case
\* the run ends with MAX_ITERATIONS.
C4_ExecutorFailureDoesNotAbortRun ==
    \A i \in 1..Len(trace["A"]) :
        FailedAtExecutor(trace["A"][i])
            => /\ HasRecord(all_tool_calls["A"], trace["A"][i])
               /\ HasToolMessage(messages["A"], trace["A"][i])
               /\ Done("A")
                    => /\ HasRecord(Val(output["A"]).tool_calls, trace["A"][i])
                       /\ Len(trace["A"]) >= TurnEnd(trace["A"], i)
                       /\ \A m \in i..TurnEnd(trace["A"], i) : ~trace["A"][m].out.raised
                       /\ \/ Len(trace["A"]) > TurnEnd(trace["A"], i)
                          \/ /\ Len(LLMEventsOf(trace["A"])) = input["A"].max_iterations
                             /\ OutputCode(Val(output["A"])) = "MAX_ITERATIONS"

\* the messages one observed event adds to the history
MessagesOf(e) ==
    CASE e.ev = "prompt" -> IF e.resp.raised THEN <<>> ELSE InitialMessages
      [] CallsTools(e) -> <<Msg("assistant", e.resp.content, "", e.resp.tool_calls)>>
      [] IsToolEvent(e) /\ ~e.out.raised ->
            <<Msg("tool", JsonText(ModelDump(e.out.ret)), e.call.id, <<>>)>>
      [] OTHER -> <<>>

\* the records one observed event adds to tool_calls
RecordsOf(e) ==
    IF IsToolEvent(e) /\ ~e.out.raised
    THEN <<[id |-> e.call.id, name |-> e.call.name, arguments |-> e.call.arguments,
            result |-> ModelDump(e.out.ret)]>>
    ELSE <<>>

RECURSIVE HistoryOf(_, _)
HistoryOf(t, n) == IF n = 0 THEN <<>> ELSE HistoryOf(t, n - 1) \o MessagesOf(t[n])

RECURSIVE ToolCallsOf(_, _)
ToolCallsOf(t, n) == IF n = 0 THEN <<>> ELSE ToolCallsOf(t, n - 1) \o RecordsOf(t[n])

IsToolMessage(m) == m.role = "tool"
ToolMessageIds(history) ==
    [n \in 1..Len(SelectSeq(history, IsToolMessage)) |->
        SelectSeq(history, IsToolMessage)[n].tool_call_id]
ExecutedIds(t) == [n \in 1..Len(ToolEventsOf(t)) |-> ToolEventsOf(t)[n].call.id]

\* the tool event at index i executes the call the LLM emitted at that position
InEmittedOrder(t, i) ==
    /\ i <= TurnEnd(t, i)
    /\ t[i].call = t[TurnStart(t, i)].resp.tool_calls[i - TurnStart(t, i)]

\* C5: the history is the two initial messages followed, in order of
\* occurrence, by the assistant message of each tool-calling response and one
\* role=tool message (with the call id) per executed tool call; tool_calls
\* holds one record per executed call in the same order; the calls of a turn
\* are executed in the order the LLM emitted them; and whenever an LLM call is
\* about to be made the role=tool messages of the history are exactly the
\* tool calls executed so far, in execution order.
C5_HistoryFollowsExecutionOrder ==
    /\ messages["A"] = HistoryOf(trace["A"], Len(trace["A"]))
    /\ all_tool_calls["A"] = ToolCallsOf(trace["A"], Len(trace["A"]))
    /\ \A i \in 1..Len(trace["A"]) :
           IsToolEvent(trace["A"][i]) => InEmittedOrder(trace["A"], i)
    /\ pc["A"] = "llm" => ToolMessageIds(messages["A"]) = ExecutedIds(trace["A"])

\* The second LLM call is about to be made after a turn of two tool calls.
C5_Witness ==
    /\ pc["A"] = "llm"
    /\ iteration["A"] = 2
    /\ Len(ToolEventsOf(trace["A"])) = 2
    /\ ToolMessageIds(messages["A"]) = <<"call_2", "call_3">>

UsageOf(e, field) ==
    IF IsLLMEvent(e) /\ ~e.resp.raised /\ ~IsNone(e.resp.usage)
    THEN Val(e.resp.usage)[field] ELSE 0

RECURSIVE SumUsage(_, _, _)
SumUsage(t, n, field) ==
    IF n = 0 THEN 0 ELSE SumUsage(t, n - 1, field) + UsageOf(t[n], field)

TokensOf(t) ==
    [prompt |-> SumUsage(t, Len(t), "prompt_tokens"),
     completion |-> SumUsage(t, Len(t), "completion_tokens"),
     total |-> SumUsage(t, Len(t), "total_tokens")]

\* C6: at every terminal outcome tokens_used.prompt, .completion and .total
\* are the sums, from zero, of the usage counts of the LLM responses the run
\* received.
C6_TokensAreSumOfUsage ==
    /\ total_tokens["A"] = TokensOf(trace["A"])
    /\ Done("A") => Val(output["A"]).tokens_used = TokensOf(trace["A"])

\* A run that received two responses with usage and ended at the iteration cap.
C6_Witness ==
    /\ Done("A")
    /\ Len(LLMEventsOf(trace["A"])) = 2
    /\ Val(output["A"]).tokens_used = [prompt |-> 17, completion |-> 7, total |-> 24]
    /\ OutputCode(Val(output["A"])) = "MAX_ITERATIONS"

\* C7: an LLM call that raises is the last thing the run does: the run has
\* returned success=false with error.code the exception's class name, and the
\* output reports every tool call recorded and all tokens accumulated before.
C7_LLMFailureEndsRunKeepingProgress ==
    \A i \in 1..Len(trace["A"]) :
        LLMRaised(trace["A"][i])
            => /\ i = Len(trace["A"])
               /\ Done("A")
               /\ ~Val(output["A"]).success
               /\ OutputCode(Val(output["A"])) = trace["A"][i].resp.exc.cls
               /\ Val(output["A"]).tool_calls = ToolCallsOf(trace["A"], Len(trace["A"]))
               /\ Val(output["A"]).tokens_used = TokensOf(trace["A"])

\* The second LLM call raises after a turn that recorded tool calls and tokens.
C7_Witness ==
    /\ Done("A")
    /\ LLMRaised(trace["A"][Len(trace["A"])])
    /\ OutputCode(Val(output["A"])) = "APITimeoutError"
    /\ Len(Val(output["A"]).tool_calls) = 2
    /\ Val(output["A"]).tokens_used.total = 15

-----------------------------------------------------------------------------
(* Two runs on one AgentRuntime (SpecTwo).                                 *)

ResponsesOf(t) == [n \in 1..Len(LLMEventsOf(t)) |-> LLMEventsOf(t)[n].resp]

\* execute() run by itself, start to end, on the LLM responses it is given:
\* the loop over iterations (RunLoop) and the loop over a turn's tool calls
\* (RunTurn, AfterToolCall).
RECURSIVE RunLoop(_, _, _, _, _)
RECURSIVE RunTurn(_, _, _, _, _, _)

AfterToolCall(inp, responses, i, j, tool_calls, tokens, out) ==
    IF out.raised THEN ExceptClause(out.exc, tool_calls, tokens)
    ELSE RunTurn(inp, responses, i, j + 1,
                 Append(tool_calls,
                        format_tool_call(responses[i].tool_calls[j].id,
                                         responses[i].tool_calls[j].name,
                                         responses[i].tool_calls[j].arguments,
                                         ModelDump(out.ret))),
                 tokens)

RunTurn(inp, responses, i, j, tool_calls, tokens) ==
    IF j > Len(responses[i].tool_calls)
    THEN RunLoop(inp, responses, i + 1, tool_calls, tokens)
    ELSE AfterToolCall(inp, responses, i, j, tool_calls, tokens,
                       ExecuteToolCall(registry, inp, responses[i].tool_calls[j]))

RunLoop(inp, responses, i, tool_calls, tokens) ==
    IF i > inp.max_iterations THEN MaxIterationsReturn(inp, tool_calls, tokens)
    ELSE IF i > Len(responses) THEN Escape(Exc("StopIteration", "no LLM response left"))
    ELSE IF responses[i].raised THEN ExceptClause(responses[i].exc, tool_calls, tokens)
    ELSE IF Len(responses[i].tool_calls) > 0
    THEN RunTurn(inp, responses, i, 1, tool_calls,
                 TrackTokens(tokens, responses[i].usage))
    ELSE FinalReturn(inp, responses[i].content, tool_calls,
                     TrackTokens(tokens, responses[i].usage))

RunAlone(inp, formatterRaised, responses) ==
    IF formatterRaised
    THEN ExceptClause(PromptEvent(TRUE).resp.exc, <<>>, ZeroTokens)
    ELSE RunLoop(inp, responses, 1, <<>>, ZeroTokens)

SameOutcome(r, res) == output[r] = res.returned /\ escaped[r] = res.escaped

\* C8: for each of two runs on one runtime, in every interleaving at their
\* await points: the history, the token totals and tool_calls the run works
\* on hold exactly what its own LLM responses and tool calls produced, and a
\* finished run has returned what execute() returns when run alone on the
\* same input and LLM responses.
C8_RunsDoNotAffectEachOther ==
    \A r \in Runs :
        pc[r] # "idle"
            => /\ messages[Slot(r)] = HistoryOf(trace[r], Len(trace[r]))
               /\ total_tokens[Slot(r)] = TokensOf(trace[r])
               /\ all_tool_calls[Slot(r)] = ToolCallsOf(trace[r], Len(trace[r]))
               /\ Done(r) => SameOutcome(r, RunAlone(input[r], trace[r][1].resp.raised,
                                                     ResponsesOf(trace[r])))

\* Both runs are in flight at once, each with tool calls of its own recorded.
C8_Witness ==
    /\ pc["A"] = "tool" /\ pc["B"] = "llm"
    /\ iteration["A"] = 1 /\ iteration["B"] = 2
    /\ Len(all_tool_calls[Slot("A")]) = 1
    /\ Len(all_tool_calls[Slot("B")]) = 2
    /\ all_tool_calls[Slot("A")][1].id = "call_2"
    /\ all_tool_calls[Slot("B")][1].id = "call_2"

-----------------------------------------------------------------------------
(* Properties of ToolExecutor.execute called directly (SpecExec).          *)

\* C9: for every tool name, arguments value and context, execute() raises
\* nothing and returns a ToolResult.
C9_ExecutorNeverRaises ==
    ~IsNone(callOut)
        => /\ ~Val(callOut).async.raised
           /\ Val(callOut).async.ret.type = "ToolResult"

\* the tool registered under a function name, read off the registry's tables
RegisteredAs(reg, name) == {i \in 1..Len(reg._tools) : reg._tools[i].v.name = name}
HasHandler(reg, i) ==
    /\ DictHas(reg._handlers, reg._tools[i].k)
    /\ Val(DictGet(reg._handlers, reg._tools[i].k)) # HandlerNone
RequiredNames(definition) ==
    {definition.parameters[n].name : n \in {m \in 1..Len(definition.parameters) :
                                              definition.parameters[m].required}}
AbsentRequired(definition, args) == RequiredNames(definition) \ DictKeys(args.d)

ListedMissing(ret) == {JGet(JGet(ret.error, "details"), "missing").l[n].s :
                          n \in 1..Len(JGet(JGet(ret.error, "details"), "missing").l)}

MissingParametersExactly(out, absent) ==
    /\ ~out.raised
    /\ (ErrorCode(out.ret) = "MISSING_PARAMETERS") <=> (absent # {})
    /\ absent # {} => /\ ListedMissing(out.ret) = absent
                      /\ Len(JGet(JGet(out.ret.error, "details"), "missing").l)
                            = Cardinality(absent)
                      /\ out.invoked = <<>>

\* C10: for a registered tool with a handler and arguments that parse to a
\* mapping, execute() returns MISSING_PARAMETERS exactly when a required
\* parameter is absent from the arguments; details.missing then lists the
\* absent required parameters and nothing else, and the handler is not
\* invoked.
C10_MissingParametersExactlyAbsentRequired ==
    (~IsNone(callOut) /\ ParseArguments(call.arguments).ok
                      /\ ParseArguments(call.arguments).value.kind = "dict")
        => \A i \in RegisteredAs(registry, call.tool_name) :
               HasHandler(registry, i)
                   => MissingParametersExactly(
                          Val(callOut).async,
                          AbsentRequired(registry._tools[i].v,
                                         ParseArguments(call.arguments).value))

\* the handler stored for a function name, read off the registry's tables
StoredHandler(reg, name) ==
    Val(DictGet(reg._handlers, reg._tools[CHOOSE i \in RegisteredAs(reg, name) : TRUE].k))

ExecutionErrorWith(out, msg) ==
    /\ ~out.raised
    /\ out.ret.type = "ToolResult"
    /\ ~out.ret.success
    /\ ErrorCode(out.ret) = "EXECUTION_ERROR"
    /\ JGet(out.ret.error, "message") = JStr(msg)

\* out is what the executor made of one invocation of handler: if the handler
\* raised when called, or (awaited is TRUE) when its coroutine was awaited,
\* out is EXECUTION_ERROR with the exception's message
HandlerFailureReported(out, res, awaited) ==
    /\ res.raised => ExecutionErrorWith(out, res.exc.msg)
    /\ (awaited /\ ~res.raised /\ AwaitRaises(res.ret))
           => ExecutionErrorWith(out, AwaitError(res.ret).msg)

\* C11: whenever the handler the executor resolved and invoked raises,
\* execute() and execute_sync() return a failure ToolResult with code
\* EXECUTION_ERROR whose message is str() of the exception; for execute()
\* this includes an exception raised when the handler's coroutine is awaited.
C11_HandlerExceptionBecomesExecutionError ==
    ~IsNone(callOut)
        => /\ Len(Val(callOut).async.invoked) = 1
                => HandlerFailureReported(
                       Val(callOut).async,
                       CallHandler(StoredHandler(registry, call.tool_name),
                                   Val(callOut).async.invoked[1]),
                       TRUE)
           /\ Len(Val(callOut).sync.invoked) = 1
                => HandlerFailureReported(
                       Val(callOut).sync,
                       CallHandler(StoredHandler(registry, call.tool_name),
                                   Val(callOut).sync.invoked[1]),
                       FALSE)

\* flaky_tool's handler raised RuntimeError("upstream unavailable") in both
\* entry points.
C11_Witness ==
    /\ ~IsNone(callOut)
    /\ call.tool_name = "flaky_tool"
    /\ Len(Val(callOut).sync.invoked) = 1
    /\ Len(Val(callOut).async.invoked) = 1
    /\ ExecutionErrorWith(Val(callOut).sync, "upstream unavailable")
    /\ ExecutionErrorWith(Val(callOut).async, "upstream unavailable")

-----------------------------------------------------------------------------
(* Claims about OperationExtractor.extract (SpecExtract).                  *)

\* extract() has returned (cleaned_output, operations)
ExtractReturned == ~IsNone(callOut) /\ ~Val(callOut).raised

\* The same sequence without the entries that fail Test.
Positions(seq, Test(_)) == SelectSeq([i \in 1..Len(seq) |-> i], LAMBDA i : Test(seq[i]))

CarriesOperation(result) ==
    /\ result.kind = "dict"
    /\ Truthy(JGet(result, "entity_operation")) \/ Truthy(JGet(result, "entityOperation"))

CarriedOperation(result) == Or(JGet(result, "entity_operation"), JGet(result, "entityOperation"))

\* the operations the tool results carry, in the order the results were supplied
CarriedOperations(tool_results) ==
    [k \in 1..Len(Positions(tool_results, CarriesOperation)) |->
        CarriedOperation(tool_results[Positions(tool_results, CarriesOperation)[k]])]

\* the entries of the output's entityOperations list
ExplicitEntries(agent_output) ==
    IF agent_output.kind = "dict" /\ JGet(agent_output, "entityOperations").kind = "list"
    THEN JGet(agent_output, "entityOperations").l
    ELSE <<>>

\* what follows the tool-result and the explicit operations in the returned list
InferredPart(operations, tool_results, agent_output) ==
    SubSeq(operations,
           Len(CarriedOperations(tool_results)) + Len(ExplicitEntries(agent_output)) + 1,
           Len(operations))

\* the lists under the keys that are present, joined in the order of keys
RECURSIVE ItemsUnder(_, _)
ItemsUnder(keys, agent_output) ==
    IF Len(keys) = 0 THEN <<>>
    ELSE (IF JGet(agent_output, Head(keys)).kind = "list"
          THEN JGet(agent_output, Head(keys)).l ELSE <<>>)
         \o ItemsUnder(Tail(keys), agent_output)

BodyOf(content) ==
    Or(JGet(content, "body"),
       Or(JGet(content, "content"), Or(JGet(content, "text"), JGet(content, "message"))))

\* an inferred operation was made from this item: the samples give every
\* campaign its own name and every content item its own body
MadeFrom(op, item) ==
    /\ item.kind = "dict"
    /\ \/ /\ JGet(op, "type") = JStr("create_campaign")
          /\ JGet(JGet(op, "data"), "name") = JGet(item, "name")
       \/ /\ JGet(op, "type") = JStr("create_content")
          /\ JGet(JGet(op, "data"), "body") = BodyOf(item)

Candidates(op, agent_output) ==
    IF JGet(op, "type") = JStr("create_campaign")
    THEN ItemsUnder(CAMPAIGN_KEYS, agent_output)
    ELSE ItemsUnder(CONTENT_KEYS, agent_output)

HasSource(op, agent_output) ==
    \E i \in 1..Len(Candidates(op, agent_output)) : MadeFrom(op, Candidates(op, agent_output)[i])

SourceIndex(op, agent_output) ==
    CHOOSE i \in 1..Len(Candidates(op, agent_output)) :
        MadeFrom(op, Candidates(op, agent_output)[i])

SourceOf(op, agent_output) == Candidates(op, agent_output)[SourceIndex(op, agent_output)]

\* campaign operations first, then content operations, each group in the
\* order of its items: keys in scan order, items in list order
InScanOrder(inferred, agent_output) ==
    /\ \A k \in 1..Len(inferred) :
          /\ JGet(inferred[k], "type") \in {JStr("create_campaign"), JStr("create_content")}
          /\ HasSource(inferred[k], agent_output)
    /\ \A j, k \in 1..Len(inferred) :
          j < k =>
             IF JGet(inferred[j], "type") = JGet(inferred[k], "type")
             THEN SourceIndex(inferred[j], agent_output) < SourceIndex(inferred[k], agent_output)
             ELSE JGet(inferred[j], "type") = JStr("create_campaign")

ConcatenatedInOrder(operations, cfg, tool_results, agent_output) ==
    /\ Len(operations) >= Len(CarriedOperations(tool_results)) + Len(ExplicitEntries(agent_output))
    /\ SubSeq(operations, 1, Len(CarriedOperations(tool_results)))
           = CarriedOperations(tool_results)
    /\ SubSeq(operations, Len(CarriedOperations(tool_results)) + 1,
              Len(CarriedOperations(tool_results)) + Len(ExplicitEntries(agent_output)))
           = ExplicitEntries(agent_output)
    /\ InScanOrder(InferredPart(operations, tool_results, agent_output), agent_output)
    /\ ~cfg.infer_operations => InferredPart(operations, tool_results, agent_output) = <<>>

\* C12: the list extract() returns is the operations of the tool results in
\* the order supplied, then the entries of the explicit entityOperations
\* list, then the inferred campaign operations, then the inferred content
\* operations, each inferred group following the scan order of its keys and
\* the list order of its items.
C12_OperationsConcatenatedInSourceOrder ==
    ExtractReturned
        => ConcatenatedInOrder(Val(callOut).operations, call.cfg, call.tool_results,
                               call.agent_output)

\* All four sources contribute: two tool results carry an operation, the
\* output has an explicit entry, two campaigns and two posts are converted.
C12_Witness ==
    /\ ExtractReturned
    /\ Len(CarriedOperations(call.tool_results)) = 2
    /\ Len(ExplicitEntries(call.agent_output)) = 1
    /\ Len(Val(callOut).operations) = 7
    /\ JGet(Val(callOut).operations[4], "type") = JStr("create_campaign")
    /\ JGet(Val(callOut).operations[5], "type") = JStr("create_campaign")
    /\ JGet(Val(callOut).operations[6], "type") = JStr("create_content")
    /\ JGet(Val(callOut).operations[7], "type") = JStr("create_content")

\* every supplied tool result carries an operation
AllCarry(tool_results) == \A i \in 1..Len(tool_results) : CarriesOperation(tool_results[i])

HasExplicitList(agent_output) ==
    /\ agent_output.kind = "dict"
    /\ DictHas(agent_output.d, "entityOperations")
    /\ JGet(agent_output, "entityOperations").kind = "list"

\* operations is the N carried operations followed by the M listed entries
AllKept(operations, tool_results, entries) ==
    /\ Len(operations) = Len(tool_results) + Len(entries)
    /\ \A i \in 1..Len(tool_results) : operations[i] = CarriedOperation(tool_results[i])
    /\ \A j \in 1..Len(entries) : operations[Len(tool_results) + j] = entries[j]

\* C13: with inference disabled, N tool results that each carry an operation
\* and an entityOperations list of M entries give exactly N+M operations,
\* the N of the tool results in supplied order and then the M entries in list
\* order, equal entries included.
C13_NoInferenceKeepsEveryOperation ==
    (ExtractReturned /\ ~call.cfg.infer_operations /\ AllCarry(call.tool_results)
                     /\ HasExplicitList(call.agent_output))
        => AllKept(Val(callOut).operations, call.tool_results,
                   JGet(call.agent_output, "entityOperations").l)

\* Two equal tool results and a list of three entries, the first two equal,
\* give five operations.
C13_Witness ==
    /\ ExtractReturned
    /\ ~call.cfg.infer_operations
    /\ Len(call.tool_results) = 2
    /\ AllCarry(call.tool_results)
    /\ call.tool_results[1] = call.tool_results[2]
    /\ HasExplicitList(call.agent_output)
    /\ Len(JGet(call.agent_output, "entityOperations").l) = 3
    /\ JGet(call.agent_output, "entityOperations").l[1]
           = JGet(call.agent_output, "entityOperations").l[2]
    /\ Len(Val(callOut).operations) = 5

\* the brand id an item resolves, given the default of the call
ResolvedBrand(item, default) ==
    Or(JGet(item, "brandId"), Or(JGet(item, "brand_id"), default))

AnyCreateFlag(item) ==
    \E flag \in {"createInSystem", "saveToDatabase", "autoCreate", "save", "create"} :
        Truthy(JGet(item, flag))

\* an item the conversion considers: a mapping that passes the create check
\* and, for content, has a body
Qualifies(cfg, item, isContent) ==
    /\ item.kind = "dict"
    /\ cfg.require_create_flag => AnyCreateFlag(item)
    /\ isContent => Truthy(BodyOf(item))

QualifyingWithBrand(cfg, items, isContent, default) ==
    Cardinality({i \in 1..Len(items) :
                    Qualifies(cfg, items[i], isContent)
                    /\ Truthy(ResolvedBrand(items[i], default))})

\* inferred are the operations of exactly the qualifying items that resolve a
\* brand id, item-level first and default otherwise, and each carries one
BrandGated(inferred, cfg, agent_output, default) ==
    /\ \A k \in 1..Len(inferred) :
          /\ HasSource(inferred[k], agent_output)
          /\ Truthy(ResolvedBrand(SourceOf(inferred[k], agent_output), default))
          /\ Truthy(JGet(inferred[k], "brandId"))
    /\ Len(inferred)
          = QualifyingWithBrand(cfg, ItemsUnder(CAMPAIGN_KEYS, agent_output), FALSE, default)
            + QualifyingWithBrand(cfg, ItemsUnder(CONTENT_KEYS, agent_output), TRUE, default)

InfersFromMapping == ExtractReturned /\ call.cfg.infer_operations /\ call.agent_output.kind = "dict"

\* C14 as stated: an item resolves a brand id from the item itself or else
\* from the call-level brand_id; an item that resolves none produces no
\* operation, every inferred operation carries a brand id, and there are as
\* many inferred operations as qualifying items that resolve one.
C14_BrandFromItemOrCallOnly ==
    InfersFromMapping
        => BrandGated(InferredPart(Val(callOut).operations, call.tool_results,
                                   call.agent_output),
                      call.cfg, call.agent_output, call.brand_id)

\* C14 amended: the default is the call-level brand_id or else the brandId
\* of the output mapping itself; an item with no brand id of its own produces
\* no operation when neither is given, every inferred operation carries a
\* brand id, and there are as many inferred operations as qualifying items
\* that resolve one.
C14_BrandFromItemCallOrOutput ==
    InfersFromMapping
        => BrandGated(InferredPart(Val(callOut).operations, call.tool_results,
                                   call.agent_output),
                      call.cfg, call.agent_output,
                      Or(call.brand_id, JGet(call.agent_output, "brandId")))

\* No call-level brand_id and no brandId on the output: campaign B, flagged
\* for creation, has no brand id and is left out, while campaign E and the
\* post with its own brand id are converted.
C14_Witness ==
    /\ InfersFromMapping
    /\ call.brand_id = JNull
    /\ ~Truthy(JGet(call.agent_output, "brandId"))
    /\ \E i \in 1..Len(ItemsUnder(CAMPAIGN_KEYS, call.agent_output)) :
          /\ Qualifies(call.cfg, ItemsUnder(CAMPAIGN_KEYS, call.agent_output)[i], FALSE)
          /\ ~Truthy(ResolvedBrand(ItemsUnder(CAMPAIGN_KEYS, call.agent_output)[i], JNull))
    /\ Len(InferredPart(Val(callOut).operations, call.tool_results, call.agent_output)) = 2

\* no key of the operation's data map has the value None
NoNullInData(op) ==
    (op.kind = "dict" /\ JGet(op, "data").kind = "dict")
        => \A i \in 1..Len(JGet(op, "data").d) : JGet(op, "data").d[i].v # JNull

\* C15: in the list extract() returns, no operation that came from a tool
\* result (built by a built-in handler called through the executor with
\* arguments that passed the required-parameter check) and no inferred
\* operation has a null value under a key of its data map.
C15_NoNullInOperationData ==
    ExtractReturned
        => /\ \A k \in 1..Len(CarriedOperations(call.tool_results)) :
                 NoNullInData(Val(callOut).operations[k])
           /\ \A k \in 1..Len(InferredPart(Val(callOut).operations, call.tool_results,
                                            call.agent_output)) :
                 NoNullInData(InferredPart(Val(callOut).operations, call.tool_results,
                                           call.agent_output)[k])

\* The inferred operations alone: None values are dropped from data.
InferredDataHasNoNull ==
    ExtractReturned
        => \A k \in 1..Len(InferredPart(Val(callOut).operations, call.tool_results,
                                         call.agent_output)) :
               NoNullInData(InferredPart(Val(callOut).operations, call.tool_results,
                                         call.agent_output)[k])

\* item, found under a recognised key, has an operation in inferred
Converted(inferred, item) == \E k \in 1..Len(inferred) : MadeFrom(inferred[k], item)

\* every item that is a mapping, resolves a brand id and (content) has a body
\* is converted
NoneExcluded(inferred, items, isContent, default) ==
    \A i \in 1..Len(items) :
        (/\ items[i].kind = "dict"
         /\ Truthy(ResolvedBrand(items[i], default))
         /\ isContent => Truthy(BodyOf(items[i])))
            => Converted(inferred, items[i])

CreateFlagRespected(inferred, cfg, agent_output, default) ==
    /\ cfg.require_create_flag
          => \A k \in 1..Len(inferred) :
                 /\ HasSource(inferred[k], agent_output)
                 /\ AnyCreateFlag(SourceOf(inferred[k], agent_output))
    /\ ~cfg.require_create_flag
          => /\ NoneExcluded(inferred, ItemsUnder(CAMPAIGN_KEYS, agent_output), FALSE, default)
             /\ NoneExcluded(inferred, ItemsUnder(CONTENT_KEYS, agent_output), TRUE, default)

\* C16: with require_create_flag on, every inferred operation comes from an
\* item on which one of createInSystem, saveToDatabase, autoCreate, save,
\* create is truthy; with it off, no item is left out for want of a flag.
C16_CreateFlagGatesInference ==
    InfersFromMapping
        => CreateFlagRespected(InferredPart(Val(callOut).operations, call.tool_results,
                                            call.agent_output),
                               call.cfg, call.agent_output,
                               Or(call.brand_id, JGet(call.agent_output, "brandId")))

\* With the flag required, a campaign that has a brand id and no flag is left
\* out while three other items of the output are converted.
C16_Witness ==
    /\ InfersFromMapping
    /\ call.cfg.require_create_flag
    /\ \E i \in 1..Len(ItemsUnder(CAMPAIGN_KEYS, call.agent_output)) :
          /\ ItemsUnder(CAMPAIGN_KEYS, call.agent_output)[i].kind = "dict"
          /\ ~AnyCreateFlag(ItemsUnder(CAMPAIGN_KEYS, call.agent_output)[i])
          /\ Truthy(ResolvedBrand(ItemsUnder(CAMPAIGN_KEYS, call.agent_output)[i], JNull))
          /\ ~Converted(Val(callOut).operations,
                        ItemsUnder(CAMPAIGN_KEYS, call.agent_output)[i])
    /\ Len(InferredPart(Val(callOut).operations, call.tool_results, call.agent_output)) = 3

\* cleaned is the mapping agent_output without the key entityOperations:
\* every other key is there with its value, and nothing else is
WithoutEntityOperations(cleaned, agent_output) ==
    /\ cleaned.kind = "dict"
    /\ ~DictHas(cleaned.d, "entityOperations")
    /\ Len(cleaned.d) = Len(agent_output.d) - 1
    /\ \A i \in 1..Len(agent_output.d) :
          agent_output.d[i].k # "entityOperations"
              => /\ DictHas(cleaned.d, agent_output.d[i].k)
                 /\ JGet(cleaned, agent_output.d[i].k) = agent_output.d[i].v

\* C17: the cleaned output extract() returns is the output mapping without
\* its entityOperations key, every other key and value as it was, when the
\* output is a mapping that has the key; any other output is returned as it
\* was given.
C17_CleanedOutputDropsOnlyEntityOperations ==
    ExtractReturned
        => IF call.agent_output.kind = "dict" /\ DictHas(call.agent_output.d, "entityOperations")
           THEN WithoutEntityOperations(Val(callOut).cleaned, call.agent_output)
           ELSE Val(callOut).cleaned = call.agent_output

\* The output has entityOperations next to campaigns and posts that
\* operations were inferred from; the cleaned output still has both lists.
C17_Witness ==
    /\ InfersFromMapping
    /\ DictHas(call.agent_output.d, "entityOperations")
    /\ Len(InferredPart(Val(callOut).operations, call.tool_results, call.agent_output)) = 4
    /\ ~DictHas(Val(callOut).cleaned.d, "entityOperations")
    /\ JGet(Val(callOut).cleaned, "campaigns") = JGet(call.agent_output, "campaigns")
    /\ JGet(Val(callOut).cleaned, "posts") = JGet(call.agent_output, "posts")
    /\ JGet(call.agent_output, "posts").kind = "list"

-----------------------------------------------------------------------------
(* Claims about ToolRegistry (SpecRegistry).                               *)

CalledRegistry(op) == ~IsNone(callOut) /\ call.op = op

\* the definitions a registry holds
RegisteredDefinitions(reg) == {reg._tools[i].v : i \in 1..Len(reg._tools)}

IdRegistered(reg, id) == \E d \in RegisteredDefinitions(reg) : d.id = id
NameRegistered(reg, name) == \E d \in RegisteredDefinitions(reg) : d.name = name

\* C18: register raises when the definition's id or its function name is
\* already registered, and then the registry is as it was before the call:
\* the same definitions, handlers and name mappings, the same number of
\* tools; otherwise it does not raise.
C18_DuplicateRegisterFailsAndChangesNothing ==
    CalledRegistry("register")
        => IF IdRegistered(Val(callOut).before, call.definition.id)
              \/ NameRegistered(Val(callOut).before, call.definition.name)
           THEN /\ Val(callOut).raised
                /\ registry = Val(callOut).before
                /\ Len(registry._tools) = Len(Val(callOut).before._tools)
           ELSE ~Val(callOut).raised

\* register of id t2 under the name alpha, which t1 already has: the call
\* raised and t1 is still the only tool.
C18_Witness ==
    /\ CalledRegistry("register")
    /\ Val(callOut).raised
    /\ call.definition.id = "t2"
    /\ ~IdRegistered(Val(callOut).before, "t2")
    /\ NameRegistered(Val(callOut).before, call.definition.name)
    /\ Len(registry._tools) = 1
    /\ registry._tools[1].k = "t1"

\* the Python value of a handler lookup: the handler, or None
HandlerValue(found) == IF IsNone(found) THEN HandlerNone ELSE Val(found)

\* the four lookups find definition d and its handler h
FoundByIdAndName(reg, d, h) ==
    /\ get(reg, d.id) = Some(d)
    /\ get_by_name(reg, d.name) = Some(d)
    /\ HandlerValue(get_handler(reg, d.id)) = h
    /\ HandlerValue(get_handler_by_name(reg, d.name)) = h

LookupOps == {"get", "get_by_name", "get_handler", "get_handler_by_name"}

\* C19: after any sequence of register and unregister calls, each registered
\* definition and its handler are what get, get_by_name, get_handler and
\* get_handler_by_name return for its id and its name (empty strings
\* included), an id or a name that is not registered is not found by any of
\* them, and a lookup leaves the registry as it was.
C19_LookupsAgreeWithRegistrations ==
    /\ \A i \in 1..Len(registry._tools) :
          FoundByIdAndName(registry, registry._tools[i].v,
                           Val(DictGet(registry._handlers, registry._tools[i].k)))
    /\ (CalledRegistry("register") /\ ~Val(callOut).raised)
          => FoundByIdAndName(registry, call.definition, call.handler)
    /\ \A i \in 1..Len(LookupIds) :
          ~IdRegistered(registry, LookupIds[i])
              => /\ get(registry, LookupIds[i]) = None
                 /\ get_handler(registry, LookupIds[i]) = None
    /\ \A i \in 1..Len(LookupNames) :
          ~NameRegistered(registry, LookupNames[i])
              => /\ get_by_name(registry, LookupNames[i]) = None
                 /\ get_handler_by_name(registry, LookupNames[i]) = None
    /\ (~IsNone(callOut) /\ call.op \in LookupOps) => registry = Val(callOut).before

\* The same with the definitions whose id is the empty string left aside.
LookupsAgreeForNonEmptyIds ==
    /\ \A i \in 1..Len(registry._tools) :
          registry._tools[i].k # ""
              => FoundByIdAndName(registry, registry._tools[i].v,
                                  Val(DictGet(registry._handlers, registry._tools[i].k)))
    /\ \A i \in 1..Len(LookupIds) :
          ~IdRegistered(registry, LookupIds[i])
              => /\ get(registry, LookupIds[i]) = None
                 /\ get_handler(registry, LookupIds[i]) = None
    /\ \A i \in 1..Len(LookupNames) :
          ~NameRegistered(registry, LookupNames[i])
              => /\ get_by_name(registry, LookupNames[i]) = None
                 /\ get_handler_by_name(registry, LookupNames[i]) = None
    /\ (~IsNone(callOut) /\ call.op \in LookupOps) => registry = Val(callOut).before

\* reg is before without the tool of id tool_id: its definition, handler and
\* name mapping are gone and every other entry is where and what it was
RemovedOnly(reg, before, tool_id) ==
    /\ ~IdRegistered(reg, tool_id)
    /\ ~DictHas(reg._handlers, tool_id)
    /\ \A i \in 1..Len(before._tools) :
          before._tools[i].k = tool_id => ~DictHas(reg._name_to_id, before._tools[i].v.name)
    /\ reg._tools = SelectSeq(before._tools, LAMBDA e : e.k # tool_id)
    /\ reg._handlers = SelectSeq(before._handlers, LAMBDA e : e.k # tool_id)
    /\ reg._name_to_id = SelectSeq(before._name_to_id, LAMBDA e : e.v # tool_id)
    /\ Len(reg._tools) = Len(before._tools) - 1
    /\ Len(reg._handlers) = Len(before._handlers) - 1
    /\ Len(reg._name_to_id) = Len(before._name_to_id) - 1

\* the definition removed can be registered again under the same id and name
CanRegisterAgain(reg, before, tool_id) ==
    \A i \in 1..Len(before._tools) :
        before._tools[i].k = tool_id
            => /\ ~register(reg, before._tools[i].v, "lambda").raised
               /\ IdRegistered(register(reg, before._tools[i].v, "lambda").registry, tool_id)

\* C20: unregister of a registered id returns True, removes the tool's
\* definition, handler and name mapping and nothing else, and the same id
\* and function name can then be registered again; unregister of an id that
\* is not registered returns False and leaves the registry as it was.
C20_UnregisterRemovesExactlyOneTool ==
    CalledRegistry("unregister")
        => IF IdRegistered(Val(callOut).before, call.key)
           THEN /\ Val(callOut).ret = TRUE
                /\ RemovedOnly(registry, Val(callOut).before, call.key)
                /\ CanRegisterAgain(registry, Val(callOut).before, call.key)
           ELSE /\ Val(callOut).ret = FALSE
                /\ registry = Val(callOut).before

\* t1 was unregistered from a registry of two tools; the other is still
\* there with its handler.
C20_Witness ==
    /\ CalledRegistry("unregister")
    /\ call.key = "t1"
    /\ Val(callOut).ret = TRUE
    /\ Len(Val(callOut).before._tools) = 2
    /\ Len(registry._tools) = 1
    /\ Len(registry._handlers) = 1
    /\ Len(registry._name_to_id) = 1

\* C21: a to_openai_tools call that follows a to_openai_tools call with the
\* same argument, no other call between them, returns what the earlier call
\* returned; and a to_openai_tools call leaves the registry as it was.
C21_ExportIsRepeatable ==
    CalledRegistry("to_openai_tools")
        => /\ registry = Val(callOut).before
           /\ Val(callOut).repeated => Val(callOut).ret = Val(callOut).previous

\* The second of two calls with ids omitted, on a registry of two tools.
C21_Witness ==
    /\ CalledRegistry("to_openai_tools")
    /\ Val(callOut).repeated
    /\ call.key = None
    /\ Len(registry._tools) = 2
    /\ Len(Val(callOut).ret) = 2
    /\ Val(callOut).previous = Val(callOut).ret

\* the ids a to_openai_tools call asks for: the ones given or, with the
\* argument omitted, every registered id in registration order
AskedIds(reg, tool_ids) ==
    IF IsNone(tool_ids) THEN [i \in 1..Len(reg._tools) |-> reg._tools[i].k]
    ELSE Val(tool_ids)

\* the position of a registered id, or function name, in registration order
RegistrationIndex(reg, id) == CHOOSE i \in 1..Len(reg._tools) : reg._tools[i].k = id
NameIndex(reg, name) == CHOOSE i \in 1..Len(reg._tools) : reg._tools[i].v.name = name

\* entry is the schema of the definition registered under id
SchemaOf(entry, reg, id) ==
    /\ entry.type = "function"
    /\ entry.function.name = reg._tools[RegistrationIndex(reg, id)].v.name
    /\ Range(entry.function.parameters.required)
          = {q.name : q \in {r \in Range(reg._tools[RegistrationIndex(reg, id)].v.parameters) :
                                 r.required}}
    /\ DictKeys(entry.function.parameters.properties)
          = {q.name : q \in Range(reg._tools[RegistrationIndex(reg, id)].v.parameters)}

\* one entry for each asked id that is registered, in the order asked
OneEntryPerRegisteredId(ret, reg, ids) ==
    /\ Len(ret) = Len(Positions(ids, LAMBDA id : IdRegistered(reg, id)))
    /\ \A k \in 1..Len(ret) :
          SchemaOf(ret[k], reg, ids[Positions(ids, LAMBDA id : IdRegistered(reg, id))[k]])

\* the entries come in the order their tools were registered
InRegistrationOrder(ret, reg) ==
    \A j, k \in 1..Len(ret) :
        j < k => NameIndex(reg, ret[j].function.name) <= NameIndex(reg, ret[k].function.name)

\* C30 as stated: to_openai_tools returns one entry for each given id that
\* is registered and skips the others, one entry for every registered tool
\* when ids are omitted, and the entries follow registration order.
C30_ExportFollowsRegistrationOrder ==
    CalledRegistry("to_openai_tools")
        => /\ OneEntryPerRegisteredId(Val(callOut).ret, registry, AskedIds(registry, call.key))
           /\ IsNone(call.key) => Len(Val(callOut).ret) = Len(registry._tools)
           /\ InRegistrationOrder(Val(callOut).ret, registry)

\* C30 amended: to_openai_tools returns one entry for each given id that is
\* registered and skips the others, in the order the ids were given; with
\* ids omitted it returns one entry for every registered tool in
\* registration order.
C30_ExportFollowsRequestedOrder ==
    CalledRegistry("to_openai_tools")
        => /\ OneEntryPerRegisteredId(Val(callOut).ret, registry, AskedIds(registry, call.key))
           /\ IsNone(call.key)
                => /\ Len(Val(callOut).ret) = Len(registry._tools)
                   /\ InRegistrationOrder(Val(callOut).ret, registry)

\* t1 was registered before t2 and the call asks for t2 and then t1: the
\* entry of t2 comes first.
C30_Witness ==
    /\ CalledRegistry("to_openai_tools")
    /\ call.key = Some(<<"t2", "t1">>)
    /\ Len(registry._tools) >= 2
    /\ registry._tools[1].k = "t1"
    /\ registry._tools[2].k = "t2"
    /\ Len(Val(callOut).ret) = 2
    /\ Val(callOut).ret[1].function.name = "alpha"
    /\ Val(callOut).ret[2].function.name = "beta"

-----------------------------------------------------------------------------
(* Claims about the two entry points of ToolExecutor (SpecExec).           *)

\* the handlers declared with `async def`
AsyncHandlers == {"async_handler", "async_raising_handler"}

\* no tool of that name, or one whose handler is a plain function
HandlerIsSynchronous(reg, name) ==
    \A i \in RegisteredAs(reg, name) :
        Val(DictGet(reg._handlers, reg._tools[i].k)) \notin AsyncHandlers

\* C24: for a tool whose handler is synchronous, execute() and
\* execute_sync() called with the same tool name, arguments and context end
\* the same way with the same result, whatever the handler returns.
C24_ExecuteAndExecuteSyncAgree ==
    (~IsNone(callOut) /\ HandlerIsSynchronous(registry, call.tool_name))
        => Val(callOut).async = Val(callOut).sync

\* The same for the calls in which the handler was not reached or raised or
\* returned a ToolResult.
ExecuteAndExecuteSyncAgreeOnToolResults ==
    (/\ ~IsNone(callOut)
     /\ HandlerIsSynchronous(registry, call.tool_name)
     /\ Val(callOut).sync.ret.type = "ToolResult")
        => Val(callOut).async = Val(callOut).sync

\* the first check of the fixed order that fails, "" when none does
FirstFailure(reg, tool_name, arguments) ==
    IF ~ParseArguments(arguments).ok THEN "INVALID_ARGUMENTS"
    ELSE IF RegisteredAs(reg, tool_name) = {} THEN "TOOL_NOT_FOUND"
    ELSE IF \E i \in RegisteredAs(reg, tool_name) : ~HasHandler(reg, i)
    THEN "HANDLER_NOT_FOUND"
    ELSE IF \E i \in RegisteredAs(reg, tool_name) :
                AbsentRequired(reg._tools[i].v, ParseArguments(arguments).value) # {}
    THEN "MISSING_PARAMETERS"
    ELSE ""

\* out ends with the failure code expected, the handler not invoked, or,
\* when no failure is expected, with the handler invoked once
EndsAtFirstFailure(out, expected) ==
    /\ ~out.raised
    /\ Len(out.invoked) <= 1
    /\ IF expected # ""
       THEN /\ ~out.ret.success
            /\ ErrorCode(out.ret) = expected
            /\ out.invoked = <<>>
       ELSE Len(out.invoked) = 1

\* C27: execute() returns INVALID_ARGUMENTS for an argument string that does
\* not parse, else TOOL_NOT_FOUND for a name that is not registered, else
\* HANDLER_NOT_FOUND for a tool without a handler, else MISSING_PARAMETERS
\* when a required parameter is absent; it invokes the handler exactly when
\* none of the four applies, and never more than once.
C27_ChecksInFixedOrder ==
    ~IsNone(callOut)
        => EndsAtFirstFailure(Val(callOut).async,
                              FirstFailure(registry, call.tool_name, call.arguments))

\* The same for the tools registered under a non-empty id and arguments that
\* parse to a mapping or do not parse.
ChecksInFixedOrderForMappings ==
    (/\ ~IsNone(callOut)
     /\ \A i \in RegisteredAs(registry, call.tool_name) : registry._tools[i].k # ""
     /\ ParseArguments(call.arguments).ok
            => ParseArguments(call.arguments).value.kind = "dict")
        => EndsAtFirstFailure(Val(callOut).async,
                              FirstFailure(registry, call.tool_name, call.arguments))

\* two dicts with the same keys and values, in any order
SameMapping(a, b) == Range(a) = Range(b)

ContextKeys == {"execution_id", "tenant_context"}

\* the arguments without the keys a context has
WithoutContextKeys(args) == JDict(SelectSeq(args.d, LAMBDA e : e.k \notin ContextKeys))

\* kwargs is the union of args and context, the context's value under every
\* key of the context
ContextWins(kwargs, args, context) ==
    /\ DictKeys(kwargs) = DictKeys(args) \cup DictKeys(context)
    /\ \A k \in DictKeys(context) : DictGet(kwargs, k) = DictGet(context, k)
    /\ \A k \in DictKeys(args) \ DictKeys(context) : DictGet(kwargs, k) = DictGet(args, k)

\* C29: with a context, the handler is invoked with the parsed arguments
\* and the context together, the context's value under every key both have,
\* so the call with execution_id and tenant_context taken out of the
\* arguments invokes the handler with the same keyword arguments; and a
\* required parameter absent from the parsed arguments ends the call before
\* the handler, whether or not the context has a key of that name.
C29_ContextOverridesArguments ==
    (~IsNone(callOut) /\ Truthy(call.context))
        => /\ Len(Val(callOut).async.invoked) = 1
                => /\ ContextWins(Val(callOut).async.invoked[1],
                                  ParseArguments(call.arguments).value.d, call.context.d)
                   /\ \A other \in Range(ToolExecutor_execute(
                                             registry, call.tool_name,
                                             WithoutContextKeys(
                                                 ParseArguments(call.arguments).value),
                                             call.context).invoked) :
                          SameMapping(other, Val(callOut).async.invoked[1])
           /\ \A i \in RegisteredAs(registry, call.tool_name) :
                  (/\ ParseArguments(call.arguments).ok
                   /\ ParseArguments(call.arguments).value.kind = "dict"
                   /\ AbsentRequired(registry._tools[i].v,
                                     ParseArguments(call.arguments).value) # {})
                      => Val(callOut).async.invoked = <<>>

\* search_knowledge_base called with an execution_id of the LLM's in the
\* arguments: the handler receives the execution_id of the context.
C29_Witness ==
    /\ ~IsNone(callOut)
    /\ Truthy(call.context)
    /\ call.tool_name = "search_knowledge_base"
    /\ JGet(ParseArguments(call.arguments).value, "execution_id") = JStr("spoofed")
    /\ Len(Val(callOut).async.invoked) = 1
    /\ DictGet(Val(callOut).async.invoked[1], "execution_id")
          = DictGet(call.context.d, "execution_id")
    /\ DictGet(call.context.d, "execution_id") # Some(JStr("spoofed"))

\* audit_tool requires execution_id; called with {} and a context that has
\* execution_id, it ends with MISSING_PARAMETERS.
ContextDoesNotSupplyRequired ==
    (/\ ~IsNone(callOut)
     /\ call.tool_name = "audit_tool"
     /\ Truthy(call.context)
     /\ call.arguments \in {JStr(TextEmpty), JDict(<<>>)})
        => /\ ErrorCode(Val(callOut).async.ret) = "MISSING_PARAMETERS"
           /\ Val(callOut).async.invoked = <<>>

-----------------------------------------------------------------------------
(* Claims about what a run of AgentRuntime.execute reports (Spec).         *)

\* the operation a tool call of the trace contributes: that of a successful
\* result that carries one
OperationOf(e) ==
    IF IsToolEvent(e) /\ ~e.out.raised /\ e.out.ret.success
       /\ Truthy(e.out.ret.entity_operation)
    THEN <<e.out.ret.entity_operation>>
    ELSE <<>>

RECURSIVE OperationsOf(_, _)
OperationsOf(t, n) == IF n = 0 THEN <<>> ELSE OperationsOf(t, n - 1) \o OperationOf(t[n])

SucceededWithText(r) ==
    /\ Done(r)
    /\ ~IsNone(output[r])
    /\ Val(output[r]).success
    /\ Val(output[r]).output.kind = "str"

\* C22: a successful run that ends with a plain-text answer reports as
\* entity_operations the operations of its tool calls, in the order of the
\* calls, one for each call whose result carried an operation and none for a
\* call that failed.
C22_TextAnswerReportsToolOperations ==
    SucceededWithText("A")
        => /\ Val(output["A"]).entity_operations = OperationsOf(trace["A"], Len(trace["A"]))
           /\ Val(output["A"]).tool_calls = ToolCallsOf(trace["A"], Len(trace["A"]))

\* create_campaign(brand_id="b1", name="Q2 Push", channels=["linkedin"]) and
\* then the answer "Done.": one operation, one recorded tool call.
C22_Witness ==
    /\ SucceededWithText("A")
    /\ Val(output["A"]).output = JStr(ContentDone)
    /\ Len(Val(output["A"]).tool_calls) = 1
    /\ Val(output["A"]).tool_calls[1].name = "create_campaign"
    /\ Len(Val(output["A"]).entity_operations) = 1
    /\ JGet(Val(output["A"]).entity_operations[1], "type") = JStr("create_campaign")
    /\ JGet(JGet(Val(output["A"]).entity_operations[1], "data"), "name") = JStr("Q2 Push")

\* the ids under which a function name is registered
IdsOf(reg, name) == {reg._tools[i].k : i \in RegisteredAs(reg, name)}

\* the tool call of event e reached the handler of its tool
ReachedHandler(e) == IsToolEvent(e) /\ Len(e.out.invoked) > 0

\* C23: in a run, a tool call reaches a handler only if the id of the tool
\* it names is in the run's enabled_tools; with enabled_tools empty no tool
\* call reaches a handler.
C23_OnlyEnabledToolsAreInvoked ==
    \A i \in 1..Len(trace["A"]) :
        ReachedHandler(trace["A"][i])
            => IdsOf(registry, trace["A"][i].call.name) \subseteq Range(input["A"].enabled_tools)

\* A create_campaign call with complete arguments reaches the handler in
\* every run, whatever the run enabled.
EnabledToolIsInvoked ==
    \A i \in 1..Len(trace["A"]) :
        (/\ IsToolEvent(trace["A"][i])
         /\ trace["A"][i].call.name = "create_campaign"
         /\ trace["A"][i].call.arguments = TextFull)
            => ReachedHandler(trace["A"][i])

\* C25: extract() returns for every output and every list of tool results;
\* an item whose channel is null or whose type is not a string is skipped or
\* given a default, and no exception leaves extract().
C25_ExtractNeverRaises == ~IsNone(callOut) => ~Val(callOut).raised

\* The calls that raise are those that reach the type inference of a content
\* item whose type is truthy and not a str, or whose type decides nothing
\* and whose channel is not a str.
ExtractRaisesOnlyInTypeInference ==
    (~IsNone(callOut) /\ Val(callOut).raised)
        => /\ call.cfg.infer_operations
           /\ \E i \in 1..Len(ItemsUnder(CONTENT_KEYS, call.agent_output)) :
                 /\ ItemsUnder(CONTENT_KEYS, call.agent_output)[i].kind = "dict"
                 /\ \/ JGet(ItemsUnder(CONTENT_KEYS, call.agent_output)[i], "channel") = JNull
                       /\ DictHas(ItemsUnder(CONTENT_KEYS, call.agent_output)[i].d, "channel")
                    \/ JGet(ItemsUnder(CONTENT_KEYS, call.agent_output)[i], "type").kind = "int"

RunReturned == ~IsNone(callOut) /\ Val(callOut).success

\* the output run() hands to the extractor
RunOutput == ParseOutput(ResultOutput(call.outcome))

Occurrences(x, seq) == Cardinality({i \in 1..Len(seq) : seq[i] = x})

\* C26: a successful run() returns every operation listed under the
\* output's entityOperations key as often as it is listed, and the output it
\* returns has neither an entityOperations nor an entityOperation key.
C26_RunReturnsExplicitOperationsOnce ==
    RunReturned
        => /\ \A op \in Range(ExplicitOperations(RunOutput)) :
                 Occurrences(op, Val(callOut).entity_operations)
                     = Occurrences(op, ExplicitOperations(RunOutput))
           /\ Val(callOut).output.kind = "dict"
                 => /\ ~DictHas(Val(callOut).output.d, "entityOperations")
                    /\ ~DictHas(Val(callOut).output.d, "entityOperation")

\* What run() does instead: a listed operation is returned twice as often as
\* it is listed, once by extract() and once by the loop over the keys.
ExplicitOperationsReturnedTwice ==
    RunReturned
        => \A op \in Range(ExplicitOperations(RunOutput)) :
              Occurrences(op, Val(callOut).entity_operations)
                  = 2 * Occurrences(op, ExplicitOperations(RunOutput))

\* The returned output never has an entityOperations key; it keeps an
\* entityOperation key exactly when the output had both keys.
ReturnedOutputKeys ==
    (RunReturned /\ Val(callOut).output.kind = "dict")
        => /\ ~DictHas(Val(callOut).output.d, "entityOperations")
           /\ DictHas(Val(callOut).output.d, "entityOperation")
                 <=> (/\ DictHas(RunOutput.d, "entityOperation")
                      /\ DictHas(RunOutput.d, "entityOperations"))

\* A run whose output lists one operation and also has an entityOperation
\* key: three operations are returned and the key stays in the output.
RunDoublesAndKeepsKey ==
    /\ RunReturned
    /\ RunOutput = EmbeddedBoth
    /\ Len(Val(callOut).entity_operations) = 3
    /\ DictHas(Val(callOut).output.d, "entityOperation")

\* C28: a run that returns success=false, by the iteration cap or by the
\* except clause, has a null output and no entity operations, whatever its
\* recorded tool calls returned; a run that reports entity operations is a
\* successful one.
C28_FailedRunReportsNoOperations ==
    (Done("A") /\ ~IsNone(output["A"]))
        => /\ ~Val(output["A"]).success
                 => /\ Val(output["A"]).output = JNull
                    /\ Val(output["A"]).entity_operations = <<>>
           /\ Val(output["A"]).entity_operations # <<>> => Val(output["A"]).success

\* A run ended by the iteration cap after a create_campaign call whose
\* result, recorded in tool_calls, carries an entity operation.
C28_Witness ==
    /\ Done("A")
    /\ ~Val(output["A"]).success
    /\ OutputCode(Val(output["A"])) = "MAX_ITERATIONS"
    /\ OperationsOf(trace["A"], Len(trace["A"])) # <<>>
    /\ \E i \in 1..Len(Val(output["A"]).tool_calls) :
          Truthy(JGet(Val(output["A"]).tool_calls[i].result, "entityOperation"))

\* The same for a run ended by an exception after such a call.
FailedByExceptionAfterOperation ==
    /\ Done("A")
    /\ ~Val(output["A"]).success
    /\ OutputCode(Val(output["A"])) # "MAX_ITERATIONS"
    /\ OperationsOf(trace["A"], Len(trace["A"])) # <<>>
    /\ Val(output["A"]).entity_operations = <<>>

====
